---- MODULE Spec2Model ----
(***************************************************************************)
(* On-policy rollout / advantage / update core of rl-gym-zoo:              *)
(*   src/src/ppo/pytorch_ppo_atari.py     (PPO, PyTorch, RolloutBuffer)    *)
(*   src/rl_gym/ppo_atari.py              (PPO, PyTorch, inline arrays)    *)
(*   src/src/ppo/flax_ppo_continuous.py   (PPO, Flax)                      *)
(*   src/src/a2c/pytorch_a2c_continuous.py (A2C, PyTorch)                  *)
(*   src/src/a2c/flax_a2c_continuous.py   (A2C, Flax)                      *)
(*   src/rlgym/algorithm/reinforce.py     (REINFORCE update)               *)
(* Arrays keep the source's 0-based indices: an array of shape             *)
(* (num_steps, num_envs) is a function 0..num_steps-1 -> 0..num_envs-1 ->  *)
(* value.                                                                  *)
(***************************************************************************)
EXTENDS Integers, Sequences, FiniteSets, TLC

(***************************************************************************)
(* Bounds of the model.                                                    *)
(***************************************************************************)
MaxSteps == 3
MaxEnvs == 2
MaxBatch == 4
MaxPushes == 4

(***************************************************************************)
(* Element types of the numpy arrays.  An assignment into a float32 array  *)
(* converts the value to float32: integers up to 2^24 in magnitude are     *)
(* kept, larger ones are rounded to the nearest multiple of the unit in    *)
(* the last place (ties to even).  The int64 array keeps every integer of  *)
(* the model.                                                              *)
(***************************************************************************)
Float32Exact == 16777216

RECURSIVE ulp(_, _)
ulp(x, u) == IF x <= Float32Exact * u THEN u ELSE ulp(x, 2 * u)

roundToMultiple(x, u) ==
    LET q == x \div u
        r == x % u
    IN  IF 2 * r < u THEN q * u
        ELSE IF 2 * r > u THEN (q + 1) * u
        ELSE IF q % 2 = 0 THEN q * u ELSE (q + 1) * u

float32(x) ==
    IF x < 0 THEN 0 - roundToMultiple(0 - x, ulp(0 - x, 1))
    ELSE roundToMultiple(x, ulp(x, 1))

int64(x) == x

zeros(num_steps, num_envs) ==
    [t \in 0 .. num_steps - 1 |-> [e \in 0 .. num_envs - 1 |-> 0]]

(***************************************************************************)
(* class RolloutBuffer                                                     *)
(***************************************************************************)
RolloutBuffer(num_steps, num_envs, device) ==
    [ states    |-> zeros(num_steps, num_envs),
      actions   |-> zeros(num_steps, num_envs),
      rewards   |-> zeros(num_steps, num_envs),
      flags     |-> zeros(num_steps, num_envs),
      log_probs |-> zeros(num_steps, num_envs),
      values    |-> zeros(num_steps, num_envs),
      step      |-> 0,
      num_steps |-> num_steps,
      device    |-> device ]

\* a row assigned into a typed array: every element converted
row32(row) == [e \in DOMAIN row |-> float32(row[e])]
row64(row) == [e \in DOMAIN row |-> int64(row[e])]

\* push with a slip: the cursor saturates instead of wrapping
push_no_wrap(self, state, action, reward, flag, log_prob, value) ==
    [self EXCEPT !.states[self.step]    = row32(state),
                 !.actions[self.step]   = row64(action),
                 !.rewards[self.step]   = row32(reward),
                 !.flags[self.step]     = row32(flag),
                 !.log_probs[self.step] = row32(log_prob),
                 !.values[self.step]    = row32(value),
                 !.step = IF self.step + 1 < self.num_steps THEN self.step + 1
                          ELSE self.step]

\* push with a slip: log_prob and value stored in each other's array
push_swapped(self, state, action, reward, flag, log_prob, value) ==
    [self EXCEPT !.states[self.step]    = row32(state),
                 !.actions[self.step]   = row64(action),
                 !.rewards[self.step]   = row32(reward),
                 !.flags[self.step]     = row32(flag),
                 !.log_probs[self.step] = row32(value),
                 !.values[self.step]    = row32(log_prob),
                 !.step = (self.step + 1) % self.num_steps]

push(self, state, action, reward, flag, log_prob, value) ==
    [self EXCEPT !.states[self.step]    = row32(state),
                 !.actions[self.step]   = row64(action),
                 !.rewards[self.step]   = row32(reward),
                 !.flags[self.step]     = row32(flag),
                 !.log_probs[self.step] = row32(log_prob),
                 !.values[self.step]    = row32(value),
                 !.step = (self.step + 1) % self.num_steps]

\* torch.from_numpy(...).to(device): the six arrays, in this order
get(self) ==
    << self.states, self.actions, self.rewards, self.flags,
       self.log_probs, self.values >>

(***************************************************************************)
(* Real numbers.  The estimators are computed in exact rational            *)
(* arithmetic: a number is a pair <<numerator, denominator>> in lowest     *)
(* terms with a positive denominator.  The discount factors of the model   *)
(* are dyadic, so every intermediate value is a float the source's         *)
(* float32 arithmetic represents without rounding.                        *)
(***************************************************************************)
RECURSIVE gcd(_, _)
gcd(a, b) == IF b = 0 THEN a ELSE gcd(b, a % b)

abs(x) == IF x < 0 THEN 0 - x ELSE x

Q(n, d) ==
    LET g == gcd(abs(n), abs(d))
        s == IF d < 0 THEN 0 - 1 ELSE 1
    IN  << (s * n) \div g, (s * d) \div g >>

q(n) == << n, 1 >>
qadd(a, b) == Q(a[1] * b[2] + b[1] * a[2], a[2] * b[2])
qsub(a, b) == Q(a[1] * b[2] - b[1] * a[2], a[2] * b[2])
qmul(a, b) == Q(a[1] * b[1], a[2] * b[2])

\* elementwise arithmetic on vectors of shape (num_envs,)
vadd(a, b) == [e \in DOMAIN a |-> qadd(a[e], b[e])]
vsub(a, b) == [e \in DOMAIN a |-> qsub(a[e], b[e])]
vmul(a, b) == [e \in DOMAIN a |-> qmul(a[e], b[e])]
smul(c, a) == [e \in DOMAIN a |-> qmul(c, a[e])]
one_minus(a) == [e \in DOMAIN a |-> qsub(q(1), a[e])]

qzeros(num_envs) == [e \in 0 .. num_envs - 1 |-> q(0)]
qzeros2(num_steps, num_envs) ==
    [t \in 0 .. num_steps - 1 |-> qzeros(num_envs)]

(***************************************************************************)
(* Generalized advantage estimation, PyTorch PPO: compute_advantages.      *)
(* flags is the continuation mask the orchestrator pushes (flag_of).       *)
(***************************************************************************)
RECURSIVE compute_advantages_loop(_, _, _, _, _, _, _, _)
compute_advantages_loop(i, rewards, flags, values, last_value, adv, advantages, a) ==
    IF i < 0 THEN advantages
    ELSE LET returns == vadd(rewards[i],
                             vmul(smul(a.gamma, flags[i]), last_value))
             delta == vsub(returns, values[i])
             adv2 == vadd(delta,
                          vmul(smul(qmul(a.gamma, a.gae), flags[i]), adv))
         IN  compute_advantages_loop(i - 1, rewards, flags, values,
                 values[i], adv2, [advantages EXCEPT ![i] = adv2], a)

\* compute_advantages with a slip: last_value is never moved to values[i]
RECURSIVE stale_value_loop(_, _, _, _, _, _, _, _)
stale_value_loop(i, rewards, flags, values, last_value, adv, advantages, a) ==
    IF i < 0 THEN advantages
    ELSE LET returns == vadd(rewards[i],
                             vmul(smul(a.gamma, flags[i]), last_value))
             delta == vsub(returns, values[i])
             adv2 == vadd(delta,
                          vmul(smul(qmul(a.gamma, a.gae), flags[i]), adv))
         IN  stale_value_loop(i - 1, rewards, flags, values,
                 last_value, adv2, [advantages EXCEPT ![i] = adv2], a)

compute_advantages_stale(rewards, flags, values, last_value, a) ==
    stale_value_loop(a.num_steps - 1, rewards, flags, values, last_value,
        qzeros(a.num_envs), qzeros2(a.num_steps, a.num_envs), a)

compute_advantages(rewards, flags, values, last_value, a) ==
    compute_advantages_loop(a.num_steps - 1, rewards, flags, values,
        last_value, qzeros(a.num_envs), qzeros2(a.num_steps, a.num_envs), a)

\* train(): flag = 1.0 - np.logical_or(terminated, truncated)
flag_raw(done) == done

flag_of(done) == one_minus(done)

(***************************************************************************)
(* GAE, rl_gym PPO: the recursion written inline in main().  flags holds   *)
(* done itself.                                                            *)
(***************************************************************************)
RECURSIVE main_advantages_loop(_, _, _, _, _, _, _, _)
main_advantages_loop(i, rewards, flags, state_values, next_state_value, adv, advantages, a) ==
    IF i < 0 THEN advantages
    ELSE LET terminal == one_minus(flags[i])
             returns == vadd(rewards[i],
                             vmul(smul(a.gamma, next_state_value), terminal))
             delta == vsub(returns, state_values[i])
             adv2 == vadd(vmul(smul(qmul(a.gamma, a.gae), adv), terminal),
                          delta)
         IN  main_advantages_loop(i - 1, rewards, flags, state_values,
                 state_values[i], adv2, [advantages EXCEPT ![i] = adv2], a)

main_advantages(rewards, flags, state_values, next_state_value, a) ==
    main_advantages_loop(a.num_steps - 1, rewards, flags, state_values,
        next_state_value, qzeros(a.num_envs),
        qzeros2(a.num_steps, a.num_envs), a)

(***************************************************************************)
(* GAE, Flax PPO: compute_gae.                                             *)
(***************************************************************************)
RECURSIVE compute_gae_loop(_, _, _, _, _, _, _, _)
compute_gae_loop(i, rewards, state_values, flags, next_state_value, gamma, gae, acc) ==
    IF i < 0 THEN acc.advantages
    ELSE LET terminal == one_minus(flags[i])
             returns == vadd(rewards[i],
                             vmul(smul(gamma, next_state_value), terminal))
             delta == vsub(returns, state_values[i])
             adv2 == vadd(vmul(smul(qmul(gamma, gae), acc.adv), terminal),
                          delta)
         IN  compute_gae_loop(i - 1, rewards, state_values, flags,
                 state_values[i], gamma, gae,
                 [adv |-> adv2,
                  advantages |-> [acc.advantages EXCEPT ![i] = adv2]])

compute_gae(rewards, state_values, flags, next_state_value, gamma, gae) ==
    LET num_steps == Cardinality(DOMAIN rewards)
        num_envs == Cardinality(DOMAIN rewards[0])
    IN  compute_gae_loop(num_steps - 1, rewards, state_values, flags,
            next_state_value, gamma, gae,
            [adv |-> qzeros(num_envs),
             advantages |-> qzeros2(num_steps, num_envs)])

(***************************************************************************)
(* Discounted return, PyTorch A2C: the recursion inline in train().        *)
(***************************************************************************)
RECURSIVE train_td_target_loop(_, _, _, _, _, _)
train_td_target_loop(i, rewards, flags, gain, td_target, a) ==
    IF i < 0 THEN td_target
    ELSE LET terminal == one_minus(flags[i])
             gain2 == vadd(rewards[i], vmul(smul(a.gamma, gain), terminal))
         IN  train_td_target_loop(i - 1, rewards, flags, gain2,
                 [td_target EXCEPT ![i] = gain2], a)

\* the TD target with a slip: the gain starts from 1 instead of 0
train_td_target_ones(rewards, flags, a) ==
    LET num_steps == Cardinality(DOMAIN rewards)
        num_envs == Cardinality(DOMAIN rewards[0])
    IN  train_td_target_loop(num_steps - 1, rewards, flags,
            [e \in 0 .. num_envs - 1 |-> q(1)],
            qzeros2(num_steps, num_envs), a)

train_td_target(rewards, flags, a) ==
    LET num_steps == Cardinality(DOMAIN rewards)
        num_envs == Cardinality(DOMAIN rewards[0])
    IN  train_td_target_loop(num_steps - 1, rewards, flags,
            qzeros(num_envs), qzeros2(num_steps, num_envs), a)

(***************************************************************************)
(* Discounted return, Flax A2C: compute_td_target, vmapped over the        *)
(* environment axis (in_axes 1, out_axes 1).  Per column the gains are     *)
(* appended to a list from the last step to the first and the list is      *)
(* reversed.                                                               *)
(***************************************************************************)
RECURSIVE reversed(_)
reversed(s) == IF s = << >> THEN << >> ELSE Append(reversed(Tail(s)), Head(s))

RECURSIVE td_target_column_loop(_, _, _, _, _, _)
td_target_column_loop(i, rewards, flags, gamma, gain, td_target) ==
    IF i < 0 THEN td_target
    ELSE LET terminal == qsub(q(1), flags[i])
             gain2 == qadd(rewards[i], qmul(qmul(gain, gamma), terminal))
         IN  td_target_column_loop(i - 1, rewards, flags, gamma, gain2,
                 Append(td_target, gain2))

\* compute_td_target with a slip: the list is returned without td_target[::-1]
td_target_column_unreversed(rewards, flags, gamma) ==
    LET td_target == td_target_column_loop(Cardinality(DOMAIN rewards) - 1,
                         rewards, flags, gamma, q(0), << >>)
    IN  [t \in DOMAIN rewards |-> td_target[t + 1]]

td_target_column(rewards, flags, gamma) ==
    LET td_target == reversed(
            td_target_column_loop(Cardinality(DOMAIN rewards) - 1,
                rewards, flags, gamma, q(0), << >>))
    IN  [t \in DOMAIN rewards |-> td_target[t + 1]]

\* column with a slip: every column is read from environment 0
column_first(array, e) == [t \in DOMAIN array |-> array[t][0]]

column(array, e) == [t \in DOMAIN array |-> array[t][e]]

compute_td_target(rewards, flags, gamma) ==
    LET cols == [e \in DOMAIN rewards[0] |->
                    td_target_column(column(rewards, e), column(flags, e),
                                     gamma)]
    IN  [t \in DOMAIN rewards |-> [e \in DOMAIN rewards[0] |-> cols[e][t]]]

(***************************************************************************)
(* Mean, variance and standardization over all cells of a window.  The     *)
(* cells are brought to a common denominator D, x = n / D, so that with    *)
(* N cells and S the sum of the n: mean = S / (N * D), x - mean =          *)
(* (N * n - S) / (N * D) and the variance is the sum of the squares of     *)
(* these divided by N - ddof.  torch.Tensor.std / torch.var divide by      *)
(* N - 1 (ddof = 1), numpy and jax.numpy by N (ddof = 0).  A division of   *)
(* zero by zero is the pair <<0, 0>> (NaN).                                *)
(***************************************************************************)
NaN == << 0, 0 >>

lcm(a, b) == (a * b) \div gcd(a, b)

cells_of(x) == (DOMAIN x) \X (DOMAIN x[0])

RECURSIVE common_denominator(_, _)
common_denominator(x, cs) ==
    IF cs = {} THEN 1
    ELSE LET c == CHOOSE c \in cs : TRUE
         IN  lcm(x[c[1]][c[2]][2], common_denominator(x, cs \ {c}))

\* the numerator of cell c over the common denominator D
numerator(x, c, D) == x[c[1]][c[2]][1] * (D \div x[c[1]][c[2]][2])

RECURSIVE sum_numerators(_, _, _)
sum_numerators(x, cs, D) ==
    IF cs = {} THEN 0
    ELSE LET c == CHOOSE c \in cs : TRUE
         IN  numerator(x, c, D) + sum_numerators(x, cs \ {c}, D)

\* x - x.mean()
centred(x) ==
    LET D == common_denominator(x, cells_of(x))
        N == Cardinality(cells_of(x))
        S == sum_numerators(x, cells_of(x), D)
    IN  [t \in DOMAIN x |-> [e \in DOMAIN x[t] |->
            Q(N * numerator(x, << t, e >>, D) - S, N * D)]]

RECURSIVE sum_squares(_, _, _, _, _)
sum_squares(x, cs, D, N, S) ==
    IF cs = {} THEN 0
    ELSE LET c == CHOOSE c \in cs : TRUE
             dev == N * numerator(x, c, D) - S
         IN  dev * dev + sum_squares(x, cs \ {c}, D, N, S)

\* x.var(): the square of x.std()
var(x, ddof) ==
    LET D == common_denominator(x, cells_of(x))
        N == Cardinality(cells_of(x))
        S == sum_numerators(x, cells_of(x), D)
    IN  IF N - ddof = 0 THEN NaN
        ELSE Q(sum_squares(x, cells_of(x), D, N, S), N * D * N * D * (N - ddof))

\* (x - x.mean()) / (x.std() + eps): cell (t, e) of the result is the
\* triple << c, v, eps >> that stands for the number c / (sqrt(v) + eps),
\* with c the cell of x - x.mean() and v the variance
standardize(x, ddof, eps) ==
    LET c == centred(x)
        v == var(x, ddof)
    IN  [t \in DOMAIN x |-> [e \in DOMAIN x[t] |-> << c[t][e], v, eps >>]]

\* advantages + values, elementwise over the window
madd(a, b) == [t \in DOMAIN a |-> vadd(a[t], b[t])]

\* the PPO targets with a slip: td_target is formed after the advantages
\* have been centred
ppo_targets_late(advantages, values, ddof, eps) ==
    [ td_target  |-> madd(centred(advantages), values),
      advantages |-> standardize(advantages, ddof, eps) ]

\* td_target = advantages + values, then the advantages are standardized
ppo_targets(advantages, values, ddof, eps) ==
    [ td_target  |-> madd(advantages, values),
      advantages |-> standardize(advantages, ddof, eps) ]

\* normalize with a slip: the value is returned as it came
normalize_skipped(value) == value

\* src/src/a2c/pytorch_a2c_continuous.py: normalize, on a numpy array
normalize(value) == standardize(value, 0, "1e-7")

(***************************************************************************)
(* What each script computes from a collected window between the last      *)
(* tick and the update: the value-regression target and, in the PPO        *)
(* scripts, the advantages.                                                *)
(***************************************************************************)
estimate_ppo_pytorch(rewards, flags, values, last_value, a) ==
    ppo_targets(compute_advantages(rewards, flags, values, last_value, a),
                values, 1, "1e-8")

estimate_ppo_rlgym(rewards, flags, state_values, next_state_value, a) ==
    ppo_targets(main_advantages(rewards, flags, state_values,
                                next_state_value, a),
                state_values, 1, "1e-7")

estimate_ppo_flax(rewards, state_values, flags, next_state_value, a) ==
    ppo_targets(compute_gae(rewards, state_values, flags, next_state_value,
                            a.gamma, a.gae),
                state_values, 0, "1e-7")

estimate_a2c_pytorch(rewards, flags, a) ==
    [td_target |-> normalize(train_td_target(rewards, flags, a))]

estimate_a2c_flax(rewards, flags, a) ==
    [td_target |->
        standardize(compute_td_target(rewards, flags, a.gamma), 0, "1e-7")]

VARIABLES
    args,             \* the parsed configuration (argparse namespace)
    rollout_buffer,   \* the RolloutBuffer object
    got,              \* what the last get() returned (<<>> before any get)
    pushLog,          \* history: the argument tuples of the push() calls so far
    lastOp,           \* history: the last buffer operation
    est,              \* the window handed to an estimator
    out,              \* what the estimator applied last returned
    pc,               \* where the training script is
    update,           \* main loop: update cycles completed
    i,                \* collection loop: ticks completed in this window
    global_step,      \* the global step counter
    clock,            \* environment boundary: step() calls so far
    state,            \* the current observation batch
    next_state,       \* the observation batch step() returned last
    infos,            \* final_info of the infos step() returned last
    writer,           \* metrics sink: the episode records of the last tick
    explained_var,    \* metrics sink: train/explained_var of the last cycle
    params,           \* policy parameters: number of optimizer steps applied
    lr,               \* the learning rate of the optimizer
    arrays,           \* the window arrays of the scripts without RolloutBuffer
    batch,            \* the flattened batch of the update phase
    batch_indexes,    \* the index array that is shuffled every epoch
    epoch,            \* update phase: epochs completed in this cycle
    start,            \* update phase: offset of the next minibatch
    ops,              \* history: optimizer-related calls of the last update
    pushes,           \* history: push() calls since the last get()
    atGet,            \* history: cursor and push count seen by the last get()
    shuffles,         \* history: shuffles made in this cycle
    minibatches       \* history: the minibatches taken in this epoch

bufVars == << rollout_buffer, got, pushLog, lastOp >>
estVars == << est, out >>
loopVars == << pc, update, i, global_step >>
envVars == << clock, state, next_state, infos, writer >>
dataVars == << arrays, batch >>
updVars == << batch_indexes, epoch, start, shuffles, minibatches >>
histVars == << ops, pushes, atGet >>
trainVars ==
    << loopVars, envVars, params, lr, explained_var, dataVars, updVars,
       histVars >>
vars == << args, bufVars, estVars, trainVars >>

BufIdle ==
    /\ rollout_buffer = << >>
    /\ got = << >>
    /\ pushLog = << >>
    /\ lastOp = "init"

EstIdle ==
    /\ est = << >>
    /\ out = [kind |-> "none"]

TrainIdle ==
    /\ pc = "idle"
    /\ update = 0
    /\ i = 0
    /\ global_step = 0
    /\ clock = 0
    /\ state = << >>
    /\ next_state = << >>
    /\ infos = << >>
    /\ writer = << >>
    /\ params = 0
    /\ lr = << >>
    /\ explained_var = [kind |-> "none"]
    /\ arrays = << >>
    /\ batch = << >>
    /\ batch_indexes = << >>
    /\ epoch = 0
    /\ start = 0
    /\ ops = << >>
    /\ pushes = 0
    /\ atGet = << >>
    /\ shuffles = 0
    /\ minibatches = << >>

\* the window shapes of the model
Shapes ==
    { s \in (1 .. MaxSteps) \X (1 .. MaxEnvs) : s[1] * s[2] <= MaxBatch }

(***************************************************************************)
(* The buffer on its own: any caller, any sequence of push() and get().    *)
(* A pushed row gives every environment column one cell of Cells; the      *)
(* second cell carries a reward that float32 cannot represent.             *)
(***************************************************************************)
Cells ==
    { [state |-> 11, action |-> 1, reward |-> 3, flag |-> 1,
       log_prob |-> 0 - 7, value |-> 5],
      [state |-> 12, action |-> 2, reward |-> 16777217, flag |-> 0,
       log_prob |-> 0 - 8, value |-> 6] }

Devices == {"cpu", "cuda"}

BufInit ==
    /\ \E shape \in Shapes, device \in Devices :
          /\ args = [num_steps |-> shape[1], num_envs |-> shape[2],
                     device |-> device]
          /\ rollout_buffer = RolloutBuffer(shape[1], shape[2], device)
    /\ got = << >>
    /\ pushLog = << >>
    /\ lastOp = "init"
    /\ EstIdle
    /\ TrainIdle

\* on the CPU torch.from_numpy(...).to(device) shares the arrays' memory, so
\* tensors returned earlier see later pushes; on CUDA they are copies
returned(self, old) ==
    IF old # << >> /\ self.device = "cpu" THEN get(self) ELSE old

BufPush ==
    /\ Len(pushLog) < MaxPushes
    /\ \E cells \in [DOMAIN rollout_buffer.states[0] -> Cells] :
          LET tuple == << [e \in DOMAIN cells |-> cells[e].state],
                          [e \in DOMAIN cells |-> cells[e].action],
                          [e \in DOMAIN cells |-> cells[e].reward],
                          [e \in DOMAIN cells |-> cells[e].flag],
                          [e \in DOMAIN cells |-> cells[e].log_prob],
                          [e \in DOMAIN cells |-> cells[e].value] >>
              self  == push(rollout_buffer, tuple[1], tuple[2], tuple[3],
                            tuple[4], tuple[5], tuple[6])
          IN  /\ rollout_buffer' = self
              /\ got' = returned(self, got)
              /\ pushLog' = Append(pushLog, tuple)
    /\ lastOp' = "push"
    /\ UNCHANGED << args, estVars, trainVars >>

BufGet ==
    /\ got' = get(rollout_buffer)
    /\ lastOp' = "get"
    /\ UNCHANGED << args, rollout_buffer, pushLog, estVars, trainVars >>

BufNext == BufPush \/ BufGet

SpecBuf == BufInit /\ [][BufNext]_vars

(***************************************************************************)
(* The estimators on their own: a window of rewards, done flags, value     *)
(* estimates and a bootstrap value is drawn, and each variant's estimator  *)
(* is applied to it.                                                       *)
(***************************************************************************)
RewardChoices == {q(0), q(2)}
ValueChoices == {q(1), q(3)}
BootstrapChoices == {q(1), q(5)}
DoneChoices == {q(0), q(1)}
Hypers ==
    { [gamma |-> Q(1, 2), gae |-> Q(1, 4)],
      [gamma |-> Q(3, 4), gae |-> Q(1, 2)] }

Window(shape, choices) ==
    [0 .. shape[1] - 1 -> [0 .. shape[2] - 1 -> choices]]

EstInit ==
    /\ \E shape \in Shapes, h \in Hypers :
          /\ args = [num_steps |-> shape[1], num_envs |-> shape[2],
                     gamma |-> h.gamma, gae |-> h.gae]
          /\ \E rewards \in Window(shape, RewardChoices),
                done \in Window(shape, DoneChoices),
                values \in Window(shape, ValueChoices),
                bootstrap \in [0 .. shape[2] - 1 -> BootstrapChoices] :
                est = [rewards |-> rewards, done |-> done, values |-> values,
                       bootstrap |-> bootstrap]
    /\ out = [kind |-> "none"]
    /\ BufIdle
    /\ TrainIdle

\* src/src/ppo/pytorch_ppo_atari.py: the flags pushed are 1 - done
EstComputeAdvantages ==
    /\ out.kind = "none"
    /\ out' = [kind |-> "ppo_pytorch",
               advantages |->
                   compute_advantages(est.rewards,
                       [t \in DOMAIN est.done |-> flag_of(est.done[t])],
                       est.values, est.bootstrap, args)]
    /\ UNCHANGED << args, est, bufVars, trainVars >>

\* src/rl_gym/ppo_atari.py: the flags stored are done
EstMainAdvantages ==
    /\ out.kind = "none"
    /\ out' = [kind |-> "ppo_rlgym",
               advantages |->
                   main_advantages(est.rewards, est.done, est.values,
                       est.bootstrap, args)]
    /\ UNCHANGED << args, est, bufVars, trainVars >>

\* src/src/ppo/flax_ppo_continuous.py
EstComputeGae ==
    /\ out.kind = "none"
    /\ out' = [kind |-> "ppo_flax",
               advantages |->
                   compute_gae(est.rewards, est.values, est.done,
                       est.bootstrap, args.gamma, args.gae)]
    /\ UNCHANGED << args, est, bufVars, trainVars >>

\* src/src/a2c/pytorch_a2c_continuous.py
EstTrainTdTarget ==
    /\ out.kind = "none"
    /\ out' = [kind |-> "a2c_pytorch",
               td_target |-> train_td_target(est.rewards, est.done, args)]
    /\ UNCHANGED << args, est, bufVars, trainVars >>

\* src/src/a2c/flax_a2c_continuous.py
EstComputeTdTarget ==
    /\ out.kind = "none"
    /\ out' = [kind |-> "a2c_flax",
               td_target |->
                   compute_td_target(est.rewards, est.done, args.gamma)]
    /\ UNCHANGED << args, est, bufVars, trainVars >>

EstNext ==
    \/ EstComputeAdvantages
    \/ EstMainAdvantages
    \/ EstComputeGae
    \/ EstTrainTdTarget
    \/ EstComputeTdTarget

SpecEst == EstInit /\ [][EstNext]_vars

(***************************************************************************)
(* The training scripts.                                                   *)
(*                                                                         *)
(* parse_args: the derived quantities of each script.  split is the        *)
(* command-line quantity that cuts the batch: --minibatch_size in the      *)
(* PyTorch PPO script, --num_minibatches in the rl_gym and Flax PPO        *)
(* scripts.  // on the positive integers of the model is \div.             *)
(***************************************************************************)
parse_args_ppo_pytorch(cli) ==
    LET batch_size == cli.num_envs * cli.num_steps
    IN  [ variant |-> "ppo_pytorch",
          total_timesteps |-> cli.total_timesteps,
          learning_rate |-> cli.learning_rate,
          num_envs |-> cli.num_envs,
          num_steps |-> cli.num_steps,
          num_optims |-> cli.num_optims,
          minibatch_size |-> cli.split,
          gamma |-> cli.gamma,
          gae |-> cli.gae,
          device |-> cli.device,
          batch_size |-> batch_size,
          num_minibatches |-> batch_size \div cli.split,
          num_updates |-> cli.total_timesteps \div batch_size ]

parse_args_ppo_rlgym(cli) ==
    LET batch_size == cli.num_envs * cli.num_steps
    IN  [ variant |-> "ppo_rlgym",
          total_timesteps |-> cli.total_timesteps,
          learning_rate |-> cli.learning_rate,
          num_envs |-> cli.num_envs,
          num_steps |-> cli.num_steps,
          num_minibatches |-> cli.split,
          num_optims |-> cli.num_optims,
          gamma |-> cli.gamma,
          gae |-> cli.gae,
          device |-> cli.device,
          batch_size |-> batch_size,
          minibatch_size |-> batch_size \div cli.split,
          num_updates |-> cli.total_timesteps \div cli.num_steps ]

parse_args_ppo_flax(cli) ==
    LET batch_size == cli.num_envs * cli.num_steps
    IN  [ variant |-> "ppo_flax",
          total_timesteps |-> cli.total_timesteps,
          learning_rate |-> cli.learning_rate,
          num_envs |-> cli.num_envs,
          num_steps |-> cli.num_steps,
          num_minibatches |-> cli.split,
          num_optims |-> cli.num_optims,
          gamma |-> cli.gamma,
          gae |-> cli.gae,
          batch_size |-> batch_size,
          minibatch_size |-> batch_size \div cli.split,
          num_updates |-> cli.total_timesteps \div batch_size ]

parse_args_a2c_pytorch(cli) ==
    LET batch_size == cli.num_envs * cli.num_steps
    IN  [ variant |-> "a2c_pytorch",
          total_timesteps |-> cli.total_timesteps,
          learning_rate |-> cli.learning_rate,
          num_envs |-> cli.num_envs,
          num_steps |-> cli.num_steps,
          gamma |-> cli.gamma,
          batch_size |-> batch_size,
          num_updates |-> cli.total_timesteps \div batch_size ]

parse_args_a2c_flax(cli) ==
    LET batch_size == cli.num_envs * cli.num_steps
    IN  [ variant |-> "a2c_flax",
          total_timesteps |-> cli.total_timesteps,
          learning_rate |-> cli.learning_rate,
          num_envs |-> cli.num_envs,
          num_steps |-> cli.num_steps,
          gamma |-> cli.gamma,
          batch_size |-> batch_size,
          num_updates |-> cli.total_timesteps \div batch_size ]

(***************************************************************************)
(* The collaborators the scripts call, reduced to what the loop observes.  *)
(* The environment boundary returns fresh observations at every step and   *)
(* decides which episodes end; the network is a function of the parameter  *)
(* version and the observation.                                            *)
(***************************************************************************)
envs_of(a) == 0 .. a.num_envs - 1

\* envs.reset() / the observations after the c-th envs.step()
observation(a, c) == [e \in envs_of(a) |-> 10 * c + e + 1]

\* the rewards of the c-th envs.step()
reward_of(a, c) == [e \in envs_of(a) |-> 1 + ((c + e) % 2)]

\* np.logical_or(terminated, truncated) as the 0/1 array the scripts store
Dones(a) ==
    { [e \in envs_of(a) |-> 0],
      [e \in envs_of(a) |-> IF e = 0 THEN 1 ELSE 0],
      [e \in envs_of(a) |-> 1] }

\* infos["final_info"] of the c-th envs.step(): for an environment whose
\* episode ended the record of its return r and length l, None otherwise
final_info(a, c, done) ==
    [e \in envs_of(a) |->
        IF done[e] = 1 THEN [none |-> FALSE, r |-> 100 * c + e, l |-> c]
        ELSE [none |-> TRUE]]

\* for info in infos["final_info"] from environment e on: the records
\* written to the sink, every non-None entry
RECURSIVE log_episodes(_, _, _)
log_episodes(info, e, step) ==
    IF e \notin DOMAIN info THEN << >>
    ELSE IF info[e].none THEN log_episodes(info, e + 1, step)
    ELSE << [r |-> info[e].r, l |-> info[e].l, step |-> step] >>
             \o log_episodes(info, e + 1, step)

\* the same loop ending in break: the first non-None entry only
RECURSIVE log_first_episode(_, _, _)
log_first_episode(info, e, step) ==
    IF e \notin DOMAIN info THEN << >>
    ELSE IF info[e].none THEN log_first_episode(info, e + 1, step)
    ELSE << [r |-> info[e].r, l |-> info[e].l, step |-> step] >>

value_net(p, s) == [e \in DOMAIN s |-> (p + s[e]) % 3]

\* policy(state) with a slip: the outputs of the next parameter version
policy_next_version(p, s) ==
    [ action   |-> [e \in DOMAIN s |-> s[e] % 2],
      log_prob |-> [e \in DOMAIN s |-> 0 - (p + 2)],
      value    |-> value_net(p + 1, s) ]

\* policy(state): action, log-probability and value under the parameters p
policy(p, s) ==
    [ action   |-> [e \in DOMAIN s |-> s[e] % 2],
      log_prob |-> [e \in DOMAIN s |-> 0 - (p + 1)],
      value    |-> value_net(p, s) ]

\* policy.critic(state) / get_value(state)
critic(p, s) == value_net(p, s)

to_q(array) == [t \in DOMAIN array |-> [e \in DOMAIN array[t] |-> q(array[t][e])]]
vec_q(v) == [e \in DOMAIN v |-> q(v[e])]

\* x.reshape(-1): cell (t, e) of the window is entry t * num_envs + e
flatten(array, a) ==
    [k \in 0 .. a.batch_size - 1 |-> array[k \div a.num_envs][k % a.num_envs]]

\* np.arange(batch_size)
arange(n) == [k \in 0 .. n - 1 |-> k]

\* every order a shuffle of an array of n entries can leave it in
Orders(n) == {f \in [0 .. n - 1 -> 0 .. n - 1] : \A k \in 0 .. n - 1 : \E j \in 0 .. n - 1 : f[j] = k}

\* batch_indexes[start:end]: a slice stops at the end of the array
slice(array, from, to) ==
    LET n == Cardinality(DOMAIN array)
        stop == IF to < n THEN to ELSE n
    IN  [k \in 1 .. (IF stop > from THEN stop - from ELSE 0) |-> array[from + k - 1]]

\* x[permutation]: the entries of x in the order the permutation names
take(x, permutation) == [k \in DOMAIN permutation |-> x[permutation[k]]]

\* a 0/1 array computed in floating point, read back as integers
to_int(v) == [e \in DOMAIN v |-> v[e][1] \div v[e][2]]

\* arrays[j] = row for the six window arrays of the PPO scripts
store6(arr, j, s, act, r, f, lp, v) ==
    [arr EXCEPT !.states[j]    = row32(s),
                !.actions[j]   = row32(act),
                !.rewards[j]   = row32(r),
                !.flags[j]     = row32(f),
                !.log_probs[j] = row32(lp),
                !.values[j]    = row32(v)]

\* arrays[j] = row for the four window arrays of the A2C scripts
store4(arr, j, s, act, r, f) ==
    [arr EXCEPT !.states[j]  = row32(s),
                !.actions[j] = row32(act),
                !.rewards[j] = row32(r),
                !.flags[j]   = row32(f)]

\* for _ in range(args.num_steps): whether another tick follows tick j
collect_more_extra(j, a) == j <= a.num_steps

\* the collection loop with a slip: one tick fewer
collect_more_short(j, a) == j + 1 < a.num_steps

collect_more(j, a) == j < a.num_steps

(***************************************************************************)
(* The configurations of the model.                                        *)
(***************************************************************************)
MaxSplit == 3
MaxOptims == 2
MaxUpdatePolicy == 2
TotalTimesteps == {5, 8}

PPOVariants == {"ppo_pytorch", "ppo_rlgym", "ppo_flax"}
A2CVariants == {"a2c_pytorch", "a2c_flax"}

Clis ==
    { [ num_envs |-> shape[2], num_steps |-> shape[1], num_optims |-> n,
        split |-> m, total_timesteps |-> tt, gamma |-> Q(1, 2),
        gae |-> Q(1, 4), learning_rate |-> Q(1, 4), device |-> "cpu" ] :
      shape \in Shapes, n \in 1 .. MaxOptims, m \in 1 .. MaxSplit,
      tt \in TotalTimesteps }

A2CClis ==
    { [ num_envs |-> shape[2], num_steps |-> shape[1],
        total_timesteps |-> tt, gamma |-> Q(1, 2),
        learning_rate |-> Q(1, 4) ] :
      shape \in Shapes, tt \in TotalTimesteps }

Configs ==
    {parse_args_ppo_pytorch(cli) : cli \in Clis}
        \cup {parse_args_ppo_rlgym(cli) : cli \in Clis}
        \cup {parse_args_ppo_flax(cli) : cli \in Clis}
        \cup {parse_args_a2c_pytorch(cli) : cli \in A2CClis}
        \cup {parse_args_a2c_flax(cli) : cli \in A2CClis}
        \cup {[variant |-> "reinforce"]}

\* LambdaLR of the PyTorch PPO script: the factor for scheduler epoch n
lr_lambda(n, a) == qsub(q(1), Q(n - 1, a.num_updates))

\* LambdaLR: the learning rate is the base rate times lr_lambda(n), set at
\* construction (n = 0) and by the n-th scheduler.step()
scheduler_lr(n, a) == qmul(lr_lambda(n, a), a.learning_rate)

\* rl_gym PPO: the rate assigned at the head of cycle u
new_lr(u, a) == qmul(qsub(q(1), Q(u - 1, a.num_updates)), a.learning_rate)

\* the learning rate when the main loop is entered
initial_lr(a) ==
    IF a.variant = "reinforce" THEN << >>
    ELSE IF a.variant = "ppo_pytorch" THEN scheduler_lr(0, a)
    ELSE a.learning_rate

\* the window arrays a script allocates before its main loop
allocate(a) ==
    IF a.variant \in PPOVariants \ {"ppo_pytorch"}
    THEN [ states    |-> zeros(a.num_steps, a.num_envs),
           actions   |-> zeros(a.num_steps, a.num_envs),
           rewards   |-> zeros(a.num_steps, a.num_envs),
           flags     |-> zeros(a.num_steps, a.num_envs),
           log_probs |-> zeros(a.num_steps, a.num_envs),
           values    |-> zeros(a.num_steps, a.num_envs) ]
    ELSE IF a.variant \in A2CVariants
    THEN [ states    |-> zeros(a.num_steps, a.num_envs),
           actions   |-> zeros(a.num_steps, a.num_envs),
           rewards   |-> zeros(a.num_steps, a.num_envs),
           flags     |-> zeros(a.num_steps, a.num_envs) ]
    ELSE << >>

\* the state of a script when it enters its main loop
Init ==
    /\ args \in Configs
    /\ rollout_buffer =
          IF args.variant = "ppo_pytorch"
          THEN RolloutBuffer(args.num_steps, args.num_envs, args.device)
          ELSE << >>
    /\ got = << >>
    /\ pushLog = << >>
    /\ lastOp = "init"
    /\ EstIdle
    /\ pc = "loop"
    /\ update = 0
    /\ i = 0
    /\ global_step = 0
    /\ clock = 0
    /\ state = IF args.variant = "reinforce" THEN << >>
               ELSE observation(args, 0)
    /\ next_state = << >>
    /\ infos = << >>
    /\ writer = << >>
    /\ params = 0
    /\ lr = initial_lr(args)
    /\ explained_var = [kind |-> "none"]
    /\ arrays = allocate(args)
    /\ batch = << >>
    /\ batch_indexes = << >>
    /\ epoch = 0
    /\ start = 0
    /\ ops = << >>
    /\ pushes = 0
    /\ atGet = << >>
    /\ shuffles = 0
    /\ minibatches = << >>

\* the bootstrap with a slip: the value of a freshly reset environment
bootstrap_state_reset == observation(args, 0)

\* the state whose value closes the window: next_state in the PyTorch
\* script, state (assigned from next_state after every step) in the others
bootstrap_state ==
    IF args.variant = "ppo_pytorch" THEN next_state ELSE state

\* for _ in range(args.num_updates): the head of the main loop
Loop ==
    /\ pc = "loop"
    /\ args.variant # "reinforce"
    /\ IF update < args.num_updates
       THEN /\ pc' = IF collect_more(0, args) THEN "collect" ELSE "estimate"
            /\ i' = 0
       ELSE /\ pc' = "done"
            /\ i' = i
    /\ lr' = IF args.variant = "ppo_rlgym" /\ update < args.num_updates
             THEN new_lr(update, args) ELSE lr
    /\ UNCHANGED << args, explained_var, bufVars, estVars, update,
                    global_step, envVars, params, dataVars, updVars, histVars >>

(***************************************************************************)
(* src/src/ppo/pytorch_ppo_atari.py: train()                               *)
(***************************************************************************)
\* one collection tick
Tick_ppo_pytorch ==
    /\ pc = "collect"
    /\ args.variant = "ppo_pytorch"
    /\ \E done \in Dones(args) :
          LET pol    == policy(params, state)
              reward == reward_of(args, clock + 1)
              flag   == to_int(flag_of(vec_q(done)))
              self   == push(rollout_buffer, state, pol.action, reward, flag,
                             pol.log_prob, pol.value)
          IN  /\ rollout_buffer' = self
              /\ got' = returned(self, got)
              /\ infos' = final_info(args, clock + 1, done)
    /\ global_step' = global_step + 1 * args.num_envs
    /\ writer' = log_first_episode(infos', 0, global_step')
    /\ next_state' = observation(args, clock + 1)
    /\ state' = next_state'
    /\ clock' = clock + 1
    /\ lastOp' = "push"
    /\ pushes' = pushes + 1
    /\ i' = i + 1
    /\ pc' = IF collect_more(i + 1, args) THEN "collect" ELSE "estimate"
    /\ ops' = << "policy", "envs.step", "rollout_buffer.push" >>
    /\ UNCHANGED << args, lr, explained_var, pushLog, estVars, update, params, dataVars, updVars,
                    atGet >>

\* rollout_buffer.get(), bootstrap value, advantages, flattened batch
Estimate_ppo_pytorch ==
    /\ pc = "estimate"
    /\ args.variant = "ppo_pytorch"
    /\ LET six        == get(rollout_buffer)
           last_value == critic(params, bootstrap_state)
           targets    == estimate_ppo_pytorch(to_q(six[3]), to_q(six[4]),
                             to_q(six[6]), vec_q(last_value), args)
       IN  /\ got' = six
           /\ batch' = [ states     |-> flatten(six[1], args),
                         actions    |-> flatten(six[2], args),
                         log_probs  |-> flatten(six[5], args),
                         td_target  |-> flatten(targets.td_target, args),
                         advantages |-> flatten(targets.advantages, args),
                         values     |-> flatten(six[6], args) ]
    /\ atGet' = [step |-> rollout_buffer.step, pushes |-> pushes]
    /\ pushes' = 0
    /\ lastOp' = "get"
    /\ batch_indexes' = arange(args.batch_size)
    /\ epoch' = 0
    /\ shuffles' = 0
    /\ minibatches' = << >>
    /\ pc' = "epoch"
    /\ ops' = << "rollout_buffer.get", "critic", "compute_advantages" >>
    /\ UNCHANGED << args, lr, explained_var, rollout_buffer, pushLog, estVars, update, i,
                    global_step, envVars, params, arrays, start >>

\* the head of an epoch: the index array is shuffled in place
shuffle_epoch ==
    /\ pc = "epoch"
    /\ epoch < args.num_optims
    /\ \E order \in Orders(args.batch_size) :
          batch_indexes' = take(batch_indexes, order)
    /\ shuffles' = shuffles + 1
    /\ minibatches' = << >>
    /\ start' = 0
    /\ pc' = IF args.minibatch_size = 0 THEN "error" ELSE "minibatch"
    /\ UNCHANGED << args, lr, explained_var, bufVars, estVars, update, i, global_step, envVars,
                    params, dataVars, epoch, histVars >>

\* one minibatch: slice, loss, zero_grad / backward / clip / step
minibatch_update ==
    /\ pc = "minibatch"
    /\ LET end   == start + args.minibatch_size
           index == slice(batch_indexes, start, end)
       IN  /\ minibatches' = Append(minibatches, index)
           /\ start' = end
           /\ IF end < args.batch_size
              THEN /\ pc' = "minibatch"
                   /\ epoch' = epoch
              ELSE /\ pc' = "epoch"
                   /\ epoch' = epoch + 1
    /\ ops' = << "zero_grad", "backward", "clip_grad_norm_", "step" >>
    /\ params' = params + 1
    /\ UNCHANGED << args, lr, explained_var, bufVars, estVars, update, i, global_step, envVars,
                    dataVars, batch_indexes, shuffles, pushes, atGet >>

\* a / b in IEEE arithmetic on exact values: nan when an operand is nan or
\* both are zero; a nonzero value over zero is an infinity, written
\* << 1, 0 >> or << -1, 0 >>
qdiv(a, b) ==
    IF a = NaN \/ b = NaN THEN NaN
    ELSE IF b[1] = 0 THEN << (IF a[1] > 0 THEN 1 ELSE IF a[1] < 0 THEN 0 - 1 ELSE 0), 0 >>
    ELSE Q(a[1] * b[2], a[2] * b[1])

\* 1 - x
one_less(x) == IF x[2] = 0 THEN << 0 - x[1], 0 >> ELSE qsub(q(1), x)

\* torch.var of a flat tensor: the unbiased variance of its entries
flat_var(x) == var([t \in {0} |-> x], 1)

\* td_target - values on flat tensors
target_minus_values(td_target, values) ==
    [k \in DOMAIN td_target |-> qsub(td_target[k], q(values[k]))]

\* the expression without its guard: the division is always carried out
explained_variance_unguarded(td_target, values) ==
    [kind  |-> "tensor",
     value |-> one_less(qdiv(flat_var(target_minus_values(td_target, values)),
                             flat_var(td_target)))]

\* np.nan if torch.var(td_target) == 0
\* else 1 - torch.var(td_target - values) / torch.var(td_target)
explained_variance(td_target, values) ==
    IF flat_var(td_target) = q(0) THEN [kind |-> "nan"]
    ELSE [kind  |-> "tensor",
          value |-> one_less(qdiv(flat_var(target_minus_values(td_target, values)),
                                  flat_var(td_target)))]

\* the epochs are over: the cycle ends and its locals are rebound before
\* they are read again
end_update ==
    /\ pc = "epoch"
    /\ epoch >= args.num_optims
    /\ update' = update + 1
    /\ batch' = << >>
    /\ batch_indexes' = << >>
    /\ minibatches' = << >>
    /\ pc' = "loop"
    /\ lr' = IF args.variant = "ppo_pytorch"
             THEN scheduler_lr(update + 1, args) ELSE lr
    /\ explained_var' = IF args.variant = "ppo_pytorch"
                        THEN explained_variance(batch.td_target, batch.values)
                        ELSE explained_var
    /\ UNCHANGED << args, bufVars, estVars, i, global_step, envVars, params,
                    arrays, epoch, start, shuffles, histVars >>

Shuffle_ppo_pytorch == args.variant = "ppo_pytorch" /\ shuffle_epoch
Minibatch_ppo_pytorch == args.variant = "ppo_pytorch" /\ minibatch_update
EndUpdate_ppo_pytorch == args.variant = "ppo_pytorch" /\ end_update

(***************************************************************************)
(* src/rl_gym/ppo_atari.py: main()                                         *)
(***************************************************************************)
Tick_ppo_rlgym ==
    /\ pc = "collect"
    /\ args.variant = "ppo_rlgym"
    /\ \E done \in Dones(args) :
          LET pol    == policy(params, state)
              reward == reward_of(args, clock + 1)
          IN  /\ arrays' = store6(arrays, i, state, pol.action, reward, done,
                                   pol.log_prob, pol.value)
              /\ infos' = final_info(args, clock + 1, done)
    /\ global_step' = global_step + 1
    /\ writer' = log_episodes(infos', 0, global_step')
    /\ next_state' = observation(args, clock + 1)
    /\ state' = next_state'
    /\ clock' = clock + 1
    /\ i' = i + 1
    /\ pc' = IF collect_more(i + 1, args) THEN "collect" ELSE "estimate"
    /\ ops' = << "policy", "envs.step", "store" >>
    /\ UNCHANGED << args, lr, explained_var, bufVars, estVars, update, params, batch, updVars,
                    pushes, atGet >>

Estimate_ppo_rlgym ==
    /\ pc = "estimate"
    /\ args.variant = "ppo_rlgym"
    /\ LET next_state_value == critic(params, bootstrap_state)
           targets == estimate_ppo_rlgym(to_q(arrays.rewards),
                          to_q(arrays.flags), to_q(arrays.values),
                          vec_q(next_state_value), args)
       IN  batch' = [ states     |-> flatten(arrays.states, args),
                      actions    |-> flatten(arrays.actions, args),
                      log_probs  |-> flatten(arrays.log_probs, args),
                      td_target  |-> flatten(targets.td_target, args),
                      advantages |-> flatten(targets.advantages, args) ]
    /\ batch_indexes' = arange(args.batch_size)
    /\ epoch' = 0
    /\ shuffles' = 0
    /\ minibatches' = << >>
    /\ pc' = "epoch"
    /\ ops' = << "critic", "advantages" >>
    /\ UNCHANGED << args, lr, explained_var, bufVars, estVars, update, i, global_step, envVars,
                    params, arrays, start, pushes, atGet >>

Shuffle_ppo_rlgym == args.variant = "ppo_rlgym" /\ shuffle_epoch
Minibatch_ppo_rlgym == args.variant = "ppo_rlgym" /\ minibatch_update
EndUpdate_ppo_rlgym == args.variant = "ppo_rlgym" /\ end_update

(***************************************************************************)
(* src/src/ppo/flax_ppo_continuous.py: train() and train_step()            *)
(***************************************************************************)
Tick_ppo_flax ==
    /\ pc = "collect"
    /\ args.variant = "ppo_flax"
    /\ \E done \in Dones(args) :
          LET pol    == policy(params, state)
              reward == reward_of(args, clock + 1)
          IN  /\ arrays' = store6(arrays, i, state, pol.action, reward, done,
                                   pol.log_prob, pol.value)
              /\ infos' = final_info(args, clock + 1, done)
    /\ global_step' = global_step + 1 * args.num_envs
    /\ writer' = log_first_episode(infos', 0, global_step')
    /\ next_state' = observation(args, clock + 1)
    /\ state' = next_state'
    /\ clock' = clock + 1
    /\ i' = i + 1
    /\ pc' = IF collect_more(i + 1, args) THEN "collect" ELSE "estimate"
    /\ ops' = << "policy", "envs.step", "store" >>
    /\ UNCHANGED << args, lr, explained_var, bufVars, estVars, update, params, batch, updVars,
                    pushes, atGet >>

\* cell is history: the window cell each row of the batch was read from
Estimate_ppo_flax ==
    /\ pc = "estimate"
    /\ args.variant = "ppo_flax"
    /\ LET next_state_value == critic(params, bootstrap_state)
           targets == estimate_ppo_flax(to_q(arrays.rewards),
                          to_q(arrays.values), to_q(arrays.flags),
                          vec_q(next_state_value), args)
       IN  batch' = [ states     |-> flatten(arrays.states, args),
                      actions    |-> flatten(arrays.actions, args),
                      log_probs  |-> flatten(arrays.log_probs, args),
                      advantages |-> flatten(targets.advantages, args),
                      td_target  |-> flatten(targets.td_target, args),
                      cell       |-> arange(args.batch_size) ]
    /\ epoch' = 0
    /\ shuffles' = 0
    /\ minibatches' = << >>
    /\ pc' = "epoch"
    /\ ops' = << "critic", "compute_gae" >>
    /\ UNCHANGED << args, lr, explained_var, bufVars, estVars, update, i, global_step, envVars,
                    params, arrays, batch_indexes, start, pushes, atGet >>

\* train_step: reshape to (num_minibatches, minibatch_size), then one
\* value_and_grad / apply_gradients per row
train_step(trajectories, num_minibatches, minibatch_size) ==
    [m \in 1 .. num_minibatches |->
        [k \in 1 .. minibatch_size |->
            trajectories.cell[(m - 1) * minibatch_size + k - 1]]]

\* a permutation that leaves the td_target column where it was
permute_all_but_td_target(trajectories, permutation) ==
    [f \in DOMAIN trajectories |->
        IF f = "td_target" THEN trajectories[f]
        ELSE take(trajectories[f], permutation)]

\* batch = tuple(x[permutation] for x in batch)
permute(trajectories, permutation) ==
    [f \in DOMAIN trajectories |-> take(trajectories[f], permutation)]

\* one epoch: the batch is permuted and handed to train_step
Epoch_ppo_flax ==
    /\ pc = "epoch"
    /\ args.variant = "ppo_flax"
    /\ epoch < args.num_optims
    /\ \E permutation \in Orders(args.batch_size) :
          batch' = permute(batch, permutation)
    /\ shuffles' = shuffles + 1
    /\ IF args.num_minibatches * args.minibatch_size = args.batch_size
       THEN /\ minibatches' = train_step(batch', args.num_minibatches,
                                         args.minibatch_size)
            /\ ops' = << "value_and_grad", "apply_gradients" >>
            /\ params' = params + args.num_minibatches
            /\ epoch' = epoch + 1
            /\ pc' = "epoch"
       ELSE /\ pc' = "error"
            /\ UNCHANGED << minibatches, ops, params, epoch >>
    /\ UNCHANGED << args, lr, explained_var, bufVars, estVars, update, i, global_step, envVars,
                    arrays, batch_indexes, start, pushes, atGet >>

EndUpdate_ppo_flax == args.variant = "ppo_flax" /\ end_update

(***************************************************************************)
(* src/src/a2c/pytorch_a2c_continuous.py: train()                          *)
(***************************************************************************)
Tick_a2c_pytorch ==
    /\ pc = "collect"
    /\ args.variant = "a2c_pytorch"
    /\ \E done \in Dones(args) :
          LET pol    == policy(params, state)
              reward == reward_of(args, clock + 1)
          IN  /\ arrays' = store4(arrays, i, state, pol.action, reward, done)
              /\ infos' = final_info(args, clock + 1, done)
    /\ global_step' = global_step + 1 * args.num_envs
    /\ writer' = log_first_episode(infos', 0, global_step')
    /\ next_state' = observation(args, clock + 1)
    /\ state' = next_state'
    /\ clock' = clock + 1
    /\ i' = i + 1
    /\ pc' = IF collect_more(i + 1, args) THEN "collect" ELSE "estimate"
    /\ ops' = << "policy", "envs.step", "store" >>
    /\ UNCHANGED << args, lr, explained_var, bufVars, estVars, update, params, batch, updVars,
                    pushes, atGet >>

\* an update that steps the optimizer a second time
optimizer_step_twice(p) == p + 2

\* optimizer.step() / train_state.apply_gradients(grads=grads): the
\* parameters move on by one version
optimizer_step(p) == p + 1

\* TD target, flattened batch, one loss and one optimizer step
Update_a2c_pytorch ==
    /\ pc = "estimate"
    /\ args.variant = "a2c_pytorch"
    /\ LET targets == estimate_a2c_pytorch(to_q(arrays.rewards),
                          to_q(arrays.flags), args)
       IN  batch' = [ states    |-> flatten(arrays.states, args),
                      actions   |-> flatten(arrays.actions, args),
                      td_target |-> flatten(targets.td_target, args) ]
    /\ ops' = << "zero_grad", "backward", "clip_grad_norm_", "step" >>
    /\ params' = optimizer_step(params)
    /\ update' = update + 1
    /\ pc' = "loop"
    /\ UNCHANGED << args, lr, explained_var, bufVars, estVars, i, global_step, envVars, arrays,
                    updVars, pushes, atGet >>

(***************************************************************************)
(* src/src/a2c/flax_a2c_continuous.py: train() and train_step()            *)
(***************************************************************************)
Tick_a2c_flax ==
    /\ pc = "collect"
    /\ args.variant = "a2c_flax"
    /\ \E done \in Dones(args) :
          LET pol    == policy(params, state)
              reward == reward_of(args, clock + 1)
          IN  /\ arrays' = store4(arrays, i, state, pol.action, reward, done)
              /\ infos' = final_info(args, clock + 1, done)
    /\ global_step' = global_step + 1 * args.num_envs
    /\ writer' = log_first_episode(infos', 0, global_step')
    /\ next_state' = observation(args, clock + 1)
    /\ state' = next_state'
    /\ clock' = clock + 1
    /\ i' = i + 1
    /\ pc' = IF collect_more(i + 1, args) THEN "collect" ELSE "estimate"
    /\ ops' = << "policy", "envs.step", "store" >>
    /\ UNCHANGED << args, lr, explained_var, bufVars, estVars, update, params, batch, updVars,
                    pushes, atGet >>

Update_a2c_flax ==
    /\ pc = "estimate"
    /\ args.variant = "a2c_flax"
    /\ LET targets == estimate_a2c_flax(to_q(arrays.rewards),
                          to_q(arrays.flags), args)
       IN  batch' = [ states    |-> flatten(arrays.states, args),
                      actions   |-> flatten(arrays.actions, args),
                      td_target |-> flatten(targets.td_target, args) ]
    /\ ops' = << "value_and_grad", "apply_gradients" >>
    /\ params' = optimizer_step(params)
    /\ update' = update + 1
    /\ pc' = "loop"
    /\ UNCHANGED << args, lr, explained_var, bufVars, estVars, i, global_step, envVars, arrays,
                    updVars, pushes, atGet >>

(***************************************************************************)
(* src/rlgym/algorithm/reinforce.py: REINFORCE.update_policy, called by    *)
(* any driver with any minibatch.                                          *)
(***************************************************************************)
update_policy ==
    /\ pc = "loop"
    /\ args.variant = "reinforce"
    /\ params < MaxUpdatePolicy
    /\ ops' = << "zero_grad", "backward", "step" >>
    /\ params' = optimizer_step(params)
    /\ UNCHANGED << args, lr, explained_var, bufVars, estVars, loopVars, envVars, dataVars,
                    updVars, pushes, atGet >>

Next ==
    \/ Loop
    \/ Tick_ppo_pytorch
    \/ Estimate_ppo_pytorch
    \/ Shuffle_ppo_pytorch
    \/ Minibatch_ppo_pytorch
    \/ EndUpdate_ppo_pytorch
    \/ Tick_ppo_rlgym
    \/ Estimate_ppo_rlgym
    \/ Shuffle_ppo_rlgym
    \/ Minibatch_ppo_rlgym
    \/ EndUpdate_ppo_rlgym
    \/ Tick_ppo_flax
    \/ Estimate_ppo_flax
    \/ Epoch_ppo_flax
    \/ EndUpdate_ppo_flax
    \/ Tick_a2c_pytorch
    \/ Update_a2c_pytorch
    \/ Tick_a2c_flax
    \/ Update_a2c_flax
    \/ update_policy

Spec == Init /\ [][Next]_vars

\* no step can be taken: the main loop is over, the script has stopped on
\* an exception, or the driver of update_policy has made its last call
Stopped ==
    \/ pc \in {"done", "error"}
    \/ args.variant = "reinforce" /\ params >= MaxUpdatePolicy

\* the scripts run on their own, the environment and optimizer calls
\* return: a step that can be taken is taken.  The second conjunct is
\* WF_vars(Next) with ENABLED <<Next>>_vars written out as ~Stopped.
SpecLive ==
    /\ Init /\ [][Next]_vars
    /\ WF_vars(Loop)
    /\ ([]<>Stopped \/ []<><<Next>>_vars)

(***************************************************************************)
(* The five scripts side by side: each script's estimation is applied to   *)
(* the same collected window and the value-regression target it hands to   *)
(* its loss is recorded under the script's name.                           *)
(***************************************************************************)
TgtInit ==
    /\ \E shape \in Shapes, h \in Hypers :
          /\ args = [num_steps |-> shape[1], num_envs |-> shape[2],
                     gamma |-> h.gamma, gae |-> h.gae]
          /\ \E rewards \in Window(shape, RewardChoices),
                done \in Window(shape, DoneChoices),
                value \in ValueChoices,
                bootstrap \in BootstrapChoices :
                est = [rewards |-> rewards, done |-> done,
                       values |-> [t \in 0 .. shape[1] - 1 |->
                                     [e \in 0 .. shape[2] - 1 |-> value]],
                       bootstrap |-> [e \in 0 .. shape[2] - 1 |-> bootstrap]]
    /\ out = [kind |-> "targets", td_target |-> << >>]
    /\ BufIdle
    /\ TrainIdle

\* the record of targets with the target of one more script
recorded(variant, target) ==
    [kind |-> "targets",
     td_target |-> [v \in DOMAIN out.td_target \cup {variant} |->
                       IF v = variant THEN target ELSE out.td_target[v]]]

TgtPpoPytorch ==
    /\ "ppo_pytorch" \notin DOMAIN out.td_target
    /\ out' = recorded("ppo_pytorch",
                  estimate_ppo_pytorch(est.rewards,
                      [t \in DOMAIN est.done |-> flag_of(est.done[t])],
                      est.values, est.bootstrap, args).td_target)
    /\ UNCHANGED << args, est, bufVars, trainVars >>

TgtPpoRlgym ==
    /\ "ppo_rlgym" \notin DOMAIN out.td_target
    /\ out' = recorded("ppo_rlgym",
                  estimate_ppo_rlgym(est.rewards, est.done, est.values,
                      est.bootstrap, args).td_target)
    /\ UNCHANGED << args, est, bufVars, trainVars >>

TgtPpoFlax ==
    /\ "ppo_flax" \notin DOMAIN out.td_target
    /\ out' = recorded("ppo_flax",
                  estimate_ppo_flax(est.rewards, est.values, est.done,
                      est.bootstrap, args).td_target)
    /\ UNCHANGED << args, est, bufVars, trainVars >>

TgtA2cPytorch ==
    /\ "a2c_pytorch" \notin DOMAIN out.td_target
    /\ out' = recorded("a2c_pytorch",
                  estimate_a2c_pytorch(est.rewards, est.done, args).td_target)
    /\ UNCHANGED << args, est, bufVars, trainVars >>

TgtA2cFlax ==
    /\ "a2c_flax" \notin DOMAIN out.td_target
    /\ out' = recorded("a2c_flax",
                  estimate_a2c_flax(est.rewards, est.done, args).td_target)
    /\ UNCHANGED << args, est, bufVars, trainVars >>

TgtNext ==
    \/ TgtPpoPytorch
    \/ TgtPpoRlgym
    \/ TgtPpoFlax
    \/ TgtA2cPytorch
    \/ TgtA2cFlax

SpecTgt == TgtInit /\ [][TgtNext]_vars

(***************************************************************************)
(* The clipped surrogate of the three PPO scripts as a function of one     *)
(* entry of the minibatch: the probability ratio, the advantage and the    *)
(* clip range eps_clip (a nonnegative number, so that 1 - eps_clip and     *)
(* 1 + eps_clip bound a band).                                             *)
(***************************************************************************)
Grid == 4        \* ratios and clip ranges are multiples of 1 / Grid
MaxRatio == 3    \* the largest ratio drawn
MaxAdv == 3      \* advantages are the halves between -MaxAdv/2 and MaxAdv/2

qle(a, b) == a[1] * b[2] <= b[1] * a[2]
qlt(a, b) == a[1] * b[2] < b[1] * a[2]
qmin(a, b) == IF qle(a, b) THEN a ELSE b
qmax(a, b) == IF qle(a, b) THEN b ELSE a

\* a clamp that applies the lower bound only
clamp_below(x, lo, hi) == qmax(x, lo)

\* torch.clamp(x, min, max): min(max(x, min), max)
clamp(x, lo, hi) == qmin(qmax(x, lo), hi)

\* jax.lax.clamp(min, x, max)
lax_clamp(lo, x, hi) == qmin(qmax(x, lo), hi)

\* surr1, surr2 and the entry of torch.min(surr1, surr2)
surrogates_torch(advantage, ratio, eps_clip) ==
    LET surr1 == qmul(advantage, ratio)
        surr2 == qmul(advantage, clamp(ratio, qsub(q(1), eps_clip),
                                       qadd(q(1), eps_clip)))
    IN  [surr1 |-> surr1, surr2 |-> surr2, min |-> qmin(surr1, surr2)]

\* surr1, surr2 and the entry of jnp.minimum(surr1, surr2)
surrogates_flax(advantage, ratio, eps_clip) ==
    LET surr1 == qmul(advantage, ratio)
        surr2 == qmul(advantage, lax_clamp(qsub(q(1), eps_clip), ratio,
                                           qadd(q(1), eps_clip)))
    IN  [surr1 |-> surr1, surr2 |-> surr2, min |-> qmin(surr1, surr2)]

RatioChoices == {Q(k, Grid) : k \in 0 .. MaxRatio * Grid}
ClipChoices == {Q(k, Grid) : k \in 0 .. Grid + 1}
AdvantageChoices == {Q(k, 2) : k \in 0 - MaxAdv .. MaxAdv}

SurInit ==
    /\ \E eps_clip \in ClipChoices : args = [eps_clip |-> eps_clip]
    /\ \E ratio \in RatioChoices, advantage \in AdvantageChoices :
          est = [ratio |-> ratio, advantage |-> advantage]
    /\ out = [kind |-> "none"]
    /\ BufIdle
    /\ TrainIdle

evaluated(variant, surrogates) ==
    [kind |-> "surrogate", variant |-> variant, surr1 |-> surrogates.surr1,
     surr2 |-> surrogates.surr2, min |-> surrogates.min]

SurPpoPytorch ==
    /\ out.kind = "none"
    /\ out' = evaluated("ppo_pytorch",
                  surrogates_torch(est.advantage, est.ratio, args.eps_clip))
    /\ UNCHANGED << args, est, bufVars, trainVars >>

SurPpoRlgym ==
    /\ out.kind = "none"
    /\ out' = evaluated("ppo_rlgym",
                  surrogates_torch(est.advantage, est.ratio, args.eps_clip))
    /\ UNCHANGED << args, est, bufVars, trainVars >>

SurPpoFlax ==
    /\ out.kind = "none"
    /\ out' = evaluated("ppo_flax",
                  surrogates_flax(est.advantage, est.ratio, args.eps_clip))
    /\ UNCHANGED << args, est, bufVars, trainVars >>

SurNext ==
    \/ SurPpoPytorch
    \/ SurPpoRlgym
    \/ SurPpoFlax

SpecSur == SurInit /\ [][SurNext]_vars

(***************************************************************************)
(* The GAE recursions in the arithmetic the scripts run them in: float32   *)
(* tensors.  A tensor entry is held as an integer count of 1 / Scale, and  *)
(* the float32 result of a statement is the fixed-point result plus a      *)
(* round-off, any value within OpError per tensor operation of the         *)
(* statement.                                                              *)
(***************************************************************************)
Scale == 100000000   \* a tensor entry x is held as x * Scale
Half == 10000        \* Scale = Half * Half
OpError == 20        \* bound on the round-off of one operation, in 1 / Scale:
                     \* half a float32 ulp below 4 is 2^-23 < 12 / Scale,
                     \* the rest covers the conversion of the Python
                     \* scalars and the truncation of fmul

\* a Python float with a terminating decimal expansion as a count of 1 / Scale
fx(x) == (Scale \div x[2]) * x[1]

\* a * b on entries, truncated to 1 / Scale
fmul(a, b) ==
    LET a1 == a \div Half
        a0 == a % Half
        b1 == b \div Half
        b0 == b % Half
    IN  a1 * b1 + (a1 * b0 + a0 * b1) \div Half + (a0 * b0) \div Scale

fvadd(a, b) == [e \in DOMAIN a |-> a[e] + b[e]]
fvsub(a, b) == [e \in DOMAIN a |-> a[e] - b[e]]
fvmul(a, b) == [e \in DOMAIN a |-> fmul(a[e], b[e])]
fsmul(c, a) == [e \in DOMAIN a |-> fmul(c, a[e])]
fone_minus(a) == [e \in DOMAIN a |-> Scale - a[e]]
rounded(a, r) == [e \in DOMAIN a |-> a[e] + r]
fzeros(num_envs) == [e \in 0 .. num_envs - 1 |-> 0]

\* compute_advantages with a slip: the factor gae is left out
RECURSIVE compute_advantages_f32_no_gae_loop(_, _, _, _, _, _, _, _, _)
compute_advantages_f32_no_gae_loop(j, rewards, flags, values, last_value, adv, advantages, a, roundoff) ==
    IF j < 0 THEN advantages
    ELSE LET returns == fvadd(rewards[j],
                              fvmul(fsmul(fx(a.gamma), flags[j]), last_value))
             delta == rounded(fvsub(returns, values[j]), roundoff[j].delta)
             adv2 == rounded(fvadd(delta,
                                 fvmul(fsmul(fx(a.gamma), flags[j]), adv)),
                             roundoff[j].adv)
         IN  compute_advantages_f32_no_gae_loop(j - 1, rewards, flags, values,
                 values[j], adv2, [advantages EXCEPT ![j] = adv2], a, roundoff)

compute_advantages_f32_no_gae(rewards, flags, values, last_value, a, roundoff) ==
    compute_advantages_f32_no_gae_loop(a.num_steps - 1, rewards, flags, values,
        last_value, fzeros(a.num_envs),
        [t \in 0 .. a.num_steps - 1 |-> fzeros(a.num_envs)], a, roundoff)

\* compute_advantages of the PyTorch PPO script on float32 tensors
RECURSIVE compute_advantages_f32_loop(_, _, _, _, _, _, _, _, _)
compute_advantages_f32_loop(j, rewards, flags, values, last_value, adv, advantages, a, roundoff) ==
    IF j < 0 THEN advantages
    ELSE LET returns == fvadd(rewards[j],
                              fvmul(fsmul(fx(a.gamma), flags[j]), last_value))
             delta == rounded(fvsub(returns, values[j]), roundoff[j].delta)
             adv2 == rounded(fvadd(delta,
                                 fvmul(fsmul(fx(qmul(a.gamma, a.gae)),
                                             flags[j]), adv)),
                             roundoff[j].adv)
         IN  compute_advantages_f32_loop(j - 1, rewards, flags, values,
                 values[j], adv2, [advantages EXCEPT ![j] = adv2], a, roundoff)

compute_advantages_f32(rewards, flags, values, last_value, a, roundoff) ==
    compute_advantages_f32_loop(a.num_steps - 1, rewards, flags, values,
        last_value, fzeros(a.num_envs),
        [t \in 0 .. a.num_steps - 1 |-> fzeros(a.num_envs)], a, roundoff)

\* compute_gae of the Flax PPO script on float32 arrays
RECURSIVE compute_gae_f32_loop(_, _, _, _, _, _, _, _, _)
compute_gae_f32_loop(j, rewards, state_values, flags, next_state_value, gamma, gae, acc, roundoff) ==
    IF j < 0 THEN acc.advantages
    ELSE LET terminal == fone_minus(flags[j])
             returns == fvadd(rewards[j],
                              fvmul(fsmul(fx(gamma), next_state_value),
                                    terminal))
             delta == rounded(fvsub(returns, state_values[j]),
                              roundoff[j].delta)
             adv2 == rounded(fvadd(fvmul(fsmul(fx(qmul(gamma, gae)), acc.adv),
                                         terminal), delta),
                             roundoff[j].adv)
         IN  compute_gae_f32_loop(j - 1, rewards, state_values, flags,
                 state_values[j], gamma, gae,
                 [adv |-> adv2,
                  advantages |-> [acc.advantages EXCEPT ![j] = adv2]],
                 roundoff)

compute_gae_f32(rewards, state_values, flags, next_state_value, gamma, gae, roundoff) ==
    LET num_steps == Cardinality(DOMAIN rewards)
        num_envs == Cardinality(DOMAIN rewards[0])
    IN  compute_gae_f32_loop(num_steps - 1, rewards, state_values, flags,
            next_state_value, gamma, gae,
            [adv |-> fzeros(num_envs),
             advantages |-> [t \in 0 .. num_steps - 1 |-> fzeros(num_envs)]],
            roundoff)

\* the round-offs of one run: in every iteration one for the statements
\* that form delta (four tensor operations) and one for the statement
\* that forms adv (three)
Roundoffs(num_steps) ==
    [0 .. num_steps - 1 ->
        [delta : {0 - 4 * OpError, 0, 4 * OpError},
         adv   : {0 - 3 * OpError, 0, 3 * OpError}]]

\* every entry of a (num_steps, num_envs) array is x
full(a, x) == [t \in 0 .. a.num_steps - 1 |-> [e \in 0 .. a.num_envs - 1 |-> x]]

\* the scenario: four steps of one environment, rewards 1, values 0.5,
\* bootstrap value 0.5, no episode end
GaeInit ==
    /\ args = [num_steps |-> 4, num_envs |-> 1,
               gamma |-> Q(99, 100), gae |-> Q(95, 100)]
    /\ est = [rewards   |-> full(args, Scale),
              done      |-> full(args, 0),
              values    |-> full(args, Scale \div 2),
              bootstrap |-> [e \in 0 .. args.num_envs - 1 |-> Scale \div 2]]
    /\ out = [kind |-> "none"]
    /\ BufIdle
    /\ TrainIdle

GaePpoPytorch ==
    /\ out.kind = "none"
    /\ \E roundoff \in Roundoffs(args.num_steps) :
          out' = [kind |-> "gae", variant |-> "ppo_pytorch",
                  advantages |->
                      compute_advantages_f32(est.rewards,
                          [t \in DOMAIN est.done |-> fone_minus(est.done[t])],
                          est.values, est.bootstrap, args, roundoff)]
    /\ UNCHANGED << args, est, bufVars, trainVars >>

GaePpoFlax ==
    /\ out.kind = "none"
    /\ \E roundoff \in Roundoffs(args.num_steps) :
          out' = [kind |-> "gae", variant |-> "ppo_flax",
                  advantages |->
                      compute_gae_f32(est.rewards, est.values, est.done,
                          est.bootstrap, args.gamma, args.gae, roundoff)]
    /\ UNCHANGED << args, est, bufVars, trainVars >>

GaeNext ==
    \/ GaePpoPytorch
    \/ GaePpoFlax

SpecGae == GaeInit /\ [][GaeNext]_vars

(***************************************************************************)
(* The standardization of the advantages in the three PPO scripts as a     *)
(* function of the window of advantages: torch's std() is the unbiased     *)
(* estimate, jnp's std() the population one.                               *)
(***************************************************************************)
AdvantageWindowChoices == {Q(1, 2), q(3)}

StdInit ==
    /\ \E shape \in Shapes :
          /\ args = [num_steps |-> shape[1], num_envs |-> shape[2]]
          /\ \E advantages \in Window(shape, AdvantageWindowChoices) :
                est = [advantages |-> advantages]
    /\ out = [kind |-> "none"]
    /\ BufIdle
    /\ TrainIdle

standardized(variant, advantages) ==
    [kind |-> "standardized", variant |-> variant, advantages |-> advantages]

\* advantages = (advantages - advantages.mean()) / (advantages.std() + 1e-8)
StdPpoPytorch ==
    /\ out.kind = "none"
    /\ out' = standardized("ppo_pytorch", standardize(est.advantages, 1, "1e-8"))
    /\ UNCHANGED << args, est, bufVars, trainVars >>

StdPpoRlgym ==
    /\ out.kind = "none"
    /\ out' = standardized("ppo_rlgym", standardize(est.advantages, 1, "1e-7"))
    /\ UNCHANGED << args, est, bufVars, trainVars >>

StdPpoFlax ==
    /\ out.kind = "none"
    /\ out' = standardized("ppo_flax", standardize(est.advantages, 0, "1e-7"))
    /\ UNCHANGED << args, est, bufVars, trainVars >>

StdNext ==
    \/ StdPpoPytorch
    \/ StdPpoRlgym
    \/ StdPpoFlax

SpecStd == StdInit /\ [][StdNext]_vars

(***************************************************************************)
(* Properties of the buffer.                                               *)
(***************************************************************************)
\* the element type of the k-th array of get(): actions are int64, the
\* other five float32
stored(k, x) == IF k = 2 THEN x ELSE float32(x)

WindowRead ==
    /\ lastOp = "get"
    /\ Len(pushLog) = rollout_buffer.num_steps

\* C1 as stated: starting from cursor 0, after exactly num_steps push() calls
\* get() returns six arrays whose row t is exactly the tuple given to the
\* t-th push, in push order, in every environment column.
C1_RoundTripExact ==
    WindowRead =>
        \A t \in 0 .. rollout_buffer.num_steps - 1 : \A k \in 1 .. 6 :
            got[k][t] = pushLog[t + 1][k]

\* C1 amended: after exactly num_steps push() calls from cursor 0, row t of
\* each array of get() is the t-th pushed tuple converted to the array's
\* element type (float32; int64 for actions), in push order and in every
\* environment column; a value that type represents comes back unchanged.
C1_RoundTripStored ==
    WindowRead =>
        \A t \in 0 .. rollout_buffer.num_steps - 1 : \A k \in 1 .. 6 :
            /\ DOMAIN got[k][t] = 0 .. args.num_envs - 1
            /\ \A e \in 0 .. args.num_envs - 1 :
                  LET x == pushLog[t + 1][k][e]
                      y == got[k][t][e]
                  IN  /\ y = stored(k, x)
                      /\ (x \in 0 - Float32Exact .. Float32Exact) => y = x

C1_Witness ==
    /\ WindowRead
    /\ args.num_steps = 2
    /\ args.num_envs = 2
    /\ pushLog[1] # pushLog[2]
    /\ pushLog[1][3][0] # pushLog[1][3][1]
    /\ got[3][0][0] = 3
    /\ got[6][1][1] = 6

\* the last push that wrote row t, 0 when no push has written it yet
lastWriter(t) ==
    LET js == {j \in 1 .. Len(pushLog) : (j - 1) % args.num_steps = t}
    IN  IF js = {} THEN 0 ELSE CHOOSE j \in js : \A j2 \in js : j2 <= j

\* C7: after k push() calls 0 <= step < num_steps and step = k mod num_steps;
\* every array keeps its shape; row t of each array holds the data of the
\* last push whose index is t modulo num_steps and of no other push, so a
\* push overwrites only the row under the cursor, and after a complete
\* window every row holds data of that window.
C7_CursorInvariant ==
    LET self == rollout_buffer
        k == Len(pushLog)
        n == args.num_steps
        six == get(self)
    IN  /\ self.num_steps = n
        /\ self.step \in 0 .. n - 1
        /\ self.step = k % n
        /\ \A a \in 1 .. 6 :
              /\ DOMAIN six[a] = 0 .. n - 1
              /\ \A t \in 0 .. n - 1 :
                    /\ DOMAIN six[a][t] = 0 .. args.num_envs - 1
                    /\ \A e \in 0 .. args.num_envs - 1 :
                          six[a][t][e] =
                              IF lastWriter(t) = 0 THEN 0
                              ELSE stored(a, pushLog[lastWriter(t)][a][e])
        /\ (k > 0 /\ k % n = 0) =>
              \A t \in 0 .. n - 1 : lastWriter(t) = k - n + t + 1

C7_Witness ==
    /\ args.num_steps = 2
    /\ Len(pushLog) = 4
    /\ rollout_buffer.step = 0
    /\ pushLog[1] # pushLog[3]
    /\ pushLog[2] # pushLog[4]
    /\ rollout_buffer.rewards[0] = row32(pushLog[3][3])

(***************************************************************************)
(* Properties of the estimators.                                           *)
(***************************************************************************)
PPOKinds == {"ppo_pytorch", "ppo_rlgym", "ppo_flax"}
A2CKinds == {"a2c_pytorch", "a2c_flax"}

\* the recursion of C2, from adv[num_steps] = 0 downwards, for column e
RECURSIVE C2_Adv(_, _)
C2_Adv(t, e) ==
    IF t = args.num_steps THEN q(0)
    ELSE LET r == est.rewards[t][e]
             v == est.values[t][e]
             cont == qsub(q(1), est.done[t][e])
             next_value == IF t = args.num_steps - 1 THEN est.bootstrap[e]
                           ELSE est.values[t + 1][e]
             residual == qsub(qadd(r, qmul(qmul(args.gamma, next_value), cont)), v)
         IN  qadd(residual,
                  qmul(qmul(qmul(args.gamma, args.gae), cont), C2_Adv(t + 1, e)))

\* C2: in every PPO variant, for every environment column and every t from
\* num_steps-1 down to 0, adv[t] = (r[t] + gamma * next_value * (1 - done[t])
\* - values[t]) + gamma * gae_lambda * (1 - done[t]) * adv[t+1], with
\* adv[num_steps] = 0, next_value the bootstrap value at t = num_steps-1 and
\* values[t+1] below it.
C2_GaeRecursion ==
    out.kind \in PPOKinds =>
        \A t \in 0 .. args.num_steps - 1 : \A e \in 0 .. args.num_envs - 1 :
            out.advantages[t][e] = C2_Adv(t, e)

C2_Witness ==
    /\ out.kind = "ppo_pytorch"
    /\ args.num_steps = 3
    /\ est.done[0][0] = q(0)
    /\ est.done[1][0] = q(0)
    /\ est.done[2][0] = q(0)
    /\ est.values[1][0] # est.values[2][0]
    /\ est.bootstrap[0] # est.values[2][0]
    /\ out.advantages[0][0] # out.advantages[1][0]

\* C3: in every PPO variant, whenever done[t] = 1 in an environment column,
\* adv[t] of that column is r[t] - values[t] exactly, whatever the later
\* rewards, values and done flags and the bootstrap value are (at
\* t = num_steps-1 the bootstrap value is dropped).
C3_NoLeakAcrossEpisodes ==
    out.kind \in PPOKinds =>
        \A t \in 0 .. args.num_steps - 1 : \A e \in 0 .. args.num_envs - 1 :
            est.done[t][e] = q(1) =>
                out.advantages[t][e] = qsub(est.rewards[t][e], est.values[t][e])

C3_Witness ==
    /\ out.kind = "ppo_pytorch"
    /\ args.num_steps = 2
    /\ args.num_envs = 2
    /\ est.done[0][0] = q(1)
    /\ est.done[1][0] = q(0)
    /\ est.done[1][1] = q(1)
    /\ est.rewards[1][0] = q(2)
    /\ est.bootstrap[1] = q(5)
    /\ out.advantages[1][0] # q(0)
    /\ out.advantages[0][0] = qsub(est.rewards[0][0], est.values[0][0])

\* C10: in both A2C variants, for every environment column and every t from
\* num_steps-1 down to 0, G[t] = r[t] + gamma * G[t+1] * (1 - done[t]) with
\* G[num_steps] = 0; in particular done[t] = 1 gives G[t] = r[t].
C10_ReturnRecursion ==
    out.kind \in A2CKinds =>
        \A t \in 0 .. args.num_steps - 1 : \A e \in 0 .. args.num_envs - 1 :
            LET G_next == IF t = args.num_steps - 1 THEN q(0)
                          ELSE out.td_target[t + 1][e]
                cont == qsub(q(1), est.done[t][e])
            IN  /\ out.td_target[t][e] =
                       qadd(est.rewards[t][e],
                            qmul(qmul(args.gamma, G_next), cont))
                /\ est.done[t][e] = q(1) =>
                       out.td_target[t][e] = est.rewards[t][e]

C10_Witness ==
    /\ out.kind = "a2c_flax"
    /\ args.num_steps = 3
    /\ est.done[0][0] = q(0)
    /\ est.done[1][0] = q(1)
    /\ est.done[2][0] = q(0)
    /\ est.rewards[2][0] = q(2)
    /\ est.rewards[1][0] = q(2)
    /\ est.rewards[0][0] = q(0)
    /\ out.td_target[0][0] = qmul(args.gamma, q(2))

RECURSIVE qpow(_, _)
qpow(x, n) == IF n = 0 THEN q(1) ELSE qmul(x, qpow(x, n - 1))

\* sum over k = t .. num_steps-1 of gamma^(k-t) * r[k] in column e
RECURSIVE DiscountedSum(_, _, _)
DiscountedSum(t, k, e) ==
    IF k >= args.num_steps THEN q(0)
    ELSE qadd(qmul(qpow(args.gamma, k - t), est.rewards[k][e]),
              DiscountedSum(t, k + 1, e))

\* done is all false in column e of the window
NeverDone(e) == \A t \in 0 .. args.num_steps - 1 : est.done[t][e] = q(0)

\* C11 as stated: with done all false, G[t] is the discounted sum of the
\* rewards of the window plus gamma^(num_steps-t) times the bootstrap value
\* of the state at the window edge.
C11_ClosedFormWithBootstrap ==
    out.kind \in A2CKinds =>
        \A e \in 0 .. args.num_envs - 1 : NeverDone(e) =>
            \A t \in 0 .. args.num_steps - 1 :
                out.td_target[t][e] =
                    qadd(DiscountedSum(t, t, e),
                         qmul(qpow(args.gamma, args.num_steps - t),
                              est.bootstrap[e]))

\* C11, amended: with done all false, G[t] is the discounted sum of the
\* rewards of the window alone; the tail beyond the window is taken as 0
\* and no bootstrap value enters.
C11_ClosedForm ==
    out.kind \in A2CKinds =>
        \A e \in 0 .. args.num_envs - 1 : NeverDone(e) =>
            \A t \in 0 .. args.num_steps - 1 :
                out.td_target[t][e] = DiscountedSum(t, t, e)

C11_Witness ==
    /\ out.kind = "a2c_pytorch"
    /\ args.num_steps = 3
    /\ NeverDone(0)
    /\ est.rewards[0][0] = q(2)
    /\ est.rewards[1][0] = q(0)
    /\ est.rewards[2][0] = q(2)
    /\ est.bootstrap[0] = q(5)
    /\ out.td_target[0][0] = qadd(q(2), qmul(qpow(args.gamma, 2), q(2)))

(***************************************************************************)
(* Properties of the training scripts, stated over Spec.                   *)
(***************************************************************************)
\* the entries of all minibatches of the epoch, in the order they were taken
RECURSIVE concat(_)
concat(ss) == IF ss = << >> THEN << >> ELSE Head(ss) \o concat(Tail(ss))

\* an epoch of a PPO script has just ended
EpochEnded == args.variant \in PPOVariants /\ pc = "epoch" /\ epoch > 0

\* every index of [0, batch_size) is in exactly one minibatch of the epoch
ExactlyOnce ==
    LET taken == concat(minibatches)
    IN  /\ Len(taken) = args.batch_size
        /\ \A k \in 0 .. args.batch_size - 1 :
              \E j \in 1 .. Len(taken) : taken[j] = k

\* C4: for a batch_size divisible by num_minibatches, when an epoch of a PPO
\* script has ended every index of [0, batch_size) has been placed in
\* exactly one minibatch, every minibatch has batch_size / num_minibatches
\* entries, and the order has been shuffled once per epoch.
C4_MinibatchPartition ==
    (/\ EpochEnded
     /\ args.num_minibatches > 0
     /\ args.batch_size % args.num_minibatches = 0)
        => /\ ExactlyOnce
           /\ \A m \in 1 .. Len(minibatches) :
                 Len(minibatches[m]) = args.batch_size \div args.num_minibatches
           /\ shuffles = epoch

\* the quantity given on the command line divides the batch
SplitDivides ==
    IF args.variant = "ppo_pytorch"
    THEN args.batch_size % args.minibatch_size = 0
    ELSE args.batch_size % args.num_minibatches = 0

\* C5: when batch_size is not divisible by the configured num_minibatches
\* (or minibatch_size), the script stops with an error before the first
\* environment step: no tick is ever taken and no cycle begins.
C5_FatalAtStartup ==
    (args.variant \in PPOVariants /\ ~SplitDivides)
        => /\ clock = 0
           /\ global_step = 0
           /\ update = 0

\* C6: in the PyTorch PPO loop every get() sees a cursor of 0 and exactly
\* num_steps push() calls since the previous get() (or since allocation),
\* and no push() happens between a get() and the end of the epochs that
\* consume it.
C6_WritesThenRead ==
    args.variant = "ppo_pytorch"
        => /\ pushes <= args.num_steps
           /\ lastOp = "get"
                 => /\ atGet.step = 0
                    /\ atGet.pushes = args.num_steps
                    /\ pushes = 0
           /\ pc \in {"epoch", "minibatch"} => lastOp = "get"
           /\ lastOp = "push" => pc \in {"collect", "estimate"}

C6_Witness ==
    /\ args.variant = "ppo_pytorch"
    /\ args.num_steps > 1
    /\ update >= 1
    /\ pc = "minibatch"
    /\ start > 0
    /\ lastOp = "get"
    /\ atGet.pushes = args.num_steps

\* C8: in every script, each optimizer step / apply_gradients is immediately
\* preceded by the gradient-norm clip.
C8_ClipBeforeStep ==
    \A k \in 1 .. Len(ops) :
        ops[k] \in {"step", "apply_gradients"}
            => k > 1 /\ ops[k - 1] = "clip_grad_norm_"

\* C9: in every script, whenever the main loop is at its head after c
\* complete update cycles, global_step = c * num_steps * num_envs.
C9_GlobalStep ==
    (args.variant \in PPOVariants \cup A2CVariants /\ pc = "loop")
        => global_step = update * args.num_steps * args.num_envs

\* the update phase of a PPO script: the batch has been built
InPPOUpdate == args.variant \in PPOVariants /\ pc \in {"epoch", "minibatch"}

\* the window the estimation of this cycle read
WindowOf(field) ==
    IF args.variant = "ppo_pytorch" THEN to_q(rollout_buffer[field])
    ELSE to_q(arrays[field])

\* the un-standardized advantages of the window, while the parameters are
\* still those of the estimation
RawAdvantages ==
    IF args.variant = "ppo_pytorch"
    THEN compute_advantages(WindowOf("rewards"), WindowOf("flags"),
             WindowOf("values"), vec_q(critic(params, next_state)), args)
    ELSE IF args.variant = "ppo_rlgym"
    THEN main_advantages(WindowOf("rewards"), WindowOf("flags"),
             WindowOf("values"), vec_q(critic(params, state)), args)
    ELSE compute_gae(WindowOf("rewards"), WindowOf("values"),
             WindowOf("flags"), vec_q(critic(params, state)), args.gamma,
             args.gae)

\* C12: in every PPO script, throughout the update phase the target of the
\* value loss is a plain number per cell, never a standardized one, while
\* the advantages are standardized; and as built it is td_target[t] =
\* adv[t] + values[t] with adv the un-standardized advantages.
C12_TargetFromRawAdvantages ==
    InPPOUpdate =>
        /\ \A k \in DOMAIN batch.td_target :
              /\ Len(batch.td_target[k]) = 2
              /\ Len(batch.advantages[k]) = 3
        /\ shuffles = 0 =>
              \A k \in DOMAIN batch.td_target :
                  batch.td_target[k] =
                      qadd(flatten(RawAdvantages, args)[k],
                           flatten(WindowOf("values"), args)[k])

C12_Witness ==
    /\ args.variant = "ppo_rlgym"
    /\ pc = "epoch"
    /\ shuffles = 0
    /\ args.batch_size = 4
    /\ \E k \in DOMAIN batch.td_target :
          /\ batch.advantages[k][2] # q(0)
          /\ batch.advantages[k][1] # flatten(RawAdvantages, args)[k]
          /\ batch.td_target[k] # q(0)

(***************************************************************************)
(* Properties of the targets side by side, stated over SpecTgt.            *)
(***************************************************************************)
\* the recorded target of script v is a standardized array
Standardizes(v) == Len(out.td_target[v][0][0]) = 3

AllRecorded == DOMAIN out.td_target = PPOVariants \cup A2CVariants

\* C13 as stated: of the scripts, exactly one standardizes td_target before
\* the loss; all others use it unstandardized.
C13_ExactlyOneStandardizes ==
    AllRecorded =>
        Cardinality({v \in DOMAIN out.td_target : Standardizes(v)}) = 1

\* C13, amended: td_target is used unstandardized in the three PPO scripts
\* and is standardized before the loss in both A2C scripts.
C13_A2CStandardize ==
    \A v \in DOMAIN out.td_target : Standardizes(v) <=> v \in A2CVariants

C13_Witness ==
    /\ AllRecorded
    /\ args.num_steps = 2
    /\ args.num_envs = 2
    /\ Standardizes("a2c_pytorch")
    /\ Standardizes("a2c_flax")
    /\ out.td_target["a2c_flax"][0][0][2] # q(0)
    /\ ~Standardizes("ppo_flax")

UpdatePhaseOver ==
    args.variant \in PPOVariants /\ pc = "epoch" /\ epoch >= args.num_optims

\* C15: when the update phase of a cycle of a PPO script has finished, it
\* has made exactly num_optims * num_minibatches optimizer steps, as has
\* every cycle before it.
C15_OptimizerSteps ==
    UpdatePhaseOver =>
        params = (update + 1) * args.num_optims * args.num_minibatches

\* the arrays the collection of a PPO script writes
Stored(field) ==
    IF args.variant = "ppo_pytorch" THEN rollout_buffer[field]
    ELSE arrays[field]

\* every row stored so far in this window holds the log-probability of one
\* parameter version and the value the current parameters give for the
\* stored observation
SameVersionWindow ==
    (args.variant \in PPOVariants /\ pc \in {"collect", "estimate"}) =>
        \A t \in 0 .. i - 1 : \A e \in envs_of(args) :
            /\ Stored("log_probs")[t][e] = Stored("log_probs")[0][e]
            /\ Stored("values")[t][e] = critic(params, Stored("states")[t])[e]

\* a step that changes the parameters is an optimizer step of the update
OnlyOptimizerMoves ==
    params' # params =>
        /\ pc \in {"minibatch", "epoch", "estimate", "loop"}
        /\ pc \in {"estimate", "loop"} =>
              args.variant \in A2CVariants \cup {"reinforce"}
        /\ ops'[Len(ops')] \in {"step", "apply_gradients"}
        /\ i' = i
        /\ clock' = clock

\* C16: the parameters change only in an optimizer step; over the ticks,
\* the bootstrap query and the estimation of a cycle they stay the same, so
\* all log_probs and values of a window come from one parameter version.
C16_ParametersFrame == []SameVersionWindow /\ [][OnlyOptimizerMoves]_vars

C16_Witness ==
    /\ args.variant = "ppo_pytorch"
    /\ args.num_steps = 2
    /\ pc = "estimate"
    /\ params >= 2
    /\ Stored("log_probs")[0][0] = 0 - (params + 1)
    /\ Stored("log_probs")[1][0] = 0 - (params + 1)

\* a cycle of a script that anneals its learning rate is under way
InAnnealedCycle ==
    /\ args.variant \in {"ppo_pytorch", "ppo_rlgym"}
    /\ pc \in {"collect", "estimate", "epoch", "minibatch"}

\* C17: the learning rate applied in cycle u is the configured
\* learning_rate in the first cycle and decreases by learning_rate /
\* num_updates from each cycle to the next, towards zero at the end of the
\* plan: lr = learning_rate * (1 - u / num_updates).
C17_LinearAnnealing ==
    InAnnealedCycle =>
        lr = qmul(args.learning_rate,
                  Q(args.num_updates - update, args.num_updates))

\* a tick has been taken in the current run
Ticked == args.variant \in PPOVariants \cup A2CVariants /\ clock > 0

\* C18: after every tick, for every environment whose episode finished on
\* it, the sink holds exactly one record with the return and length of
\* final_info, tagged with the current global step.
C18_AllEpisodesForwarded ==
    Ticked =>
        \A e \in envs_of(args) : ~infos[e].none =>
            Cardinality({k \in 1 .. Len(writer) :
                writer[k] = [r |-> infos[e].r, l |-> infos[e].l,
                             step |-> global_step]}) = 1

\* the step that ends an update cycle of the PyTorch PPO script
EndsCycle == pc = "epoch" /\ pc' = "loop" /\ args.variant = "ppo_pytorch"

\* the explained variance was logged as the sentinel
C19_Witness ==
    /\ args.variant = "ppo_pytorch"
    /\ update > 0
    /\ explained_var = [kind |-> "nan"]

\* C19: at the end of a cycle, when the unbiased variance of td_target over
\* the batch is exactly zero the logged explained variance is the sentinel
\* and nothing was divided; otherwise it is the tensor
\* 1 - var(td_target - values) / var(td_target), and a value is always
\* logged.
C19_ExplainedVarGuard ==
    [][EndsCycle =>
        LET v == flat_var(batch.td_target)
        IN  IF v = q(0) THEN explained_var' = [kind |-> "nan"]
            ELSE /\ explained_var'.kind = "tensor"
                 /\ explained_var'.value =
                        one_less(qdiv(flat_var(target_minus_values(batch.td_target,
                                                        batch.values)), v))]_vars

(***************************************************************************)
(* Properties of the clipped surrogate, stated over SpecSur.               *)
(***************************************************************************)
UpperEdge == qadd(q(1), args.eps_clip)
LowerEdge == qsub(q(1), args.eps_clip)
Surrogated == out.kind = "surrogate"

\* C20: with the ratio exactly on an edge of the clip band the two
\* surrogates are equal whatever the advantage; with a positive advantage
\* and a ratio above the upper edge the minimum of the two surrogates is
\* advantage * (1 + eps_clip), however far above the edge the ratio is.
C20_ClipBoundary ==
    Surrogated =>
        /\ est.ratio \in {UpperEdge, LowerEdge} => out.surr1 = out.surr2
        /\ (qlt(q(0), est.advantage) /\ qlt(UpperEdge, est.ratio)) =>
               out.min = qmul(est.advantage, UpperEdge)

\* a positive advantage with a ratio more than 1 beyond the upper edge
C20_Witness ==
    /\ Surrogated
    /\ qlt(q(0), est.advantage)
    /\ qlt(qadd(UpperEdge, q(1)), est.ratio)
    /\ out.min # out.surr1

(***************************************************************************)
(* Properties of the float32 GAE scenario, stated over SpecGae.            *)
(***************************************************************************)
\* the reference advantages in 1 / Scale, rounded down: adv[3] = 0.995,
\* adv[2] = 1.9307975, adv[1] = 2.81091504875, adv[0] = 3.638665603349375
Reference == << 363866560, 281091504, 193079750, 99500000 >>

\* the reference of step t is a whole number of 1 / Scale
Whole == << FALSE, FALSE, TRUE, TRUE >>

\* 1e-5 in 1 / Scale
Tolerance == Scale \div 100000

\* | x / Scale - reference of step t | <= 1e-5
WithinTolerance(x, t) ==
    /\ x >= Reference[t + 1] - Tolerance + (IF Whole[t + 1] THEN 0 ELSE 1)
    /\ x <= Reference[t + 1] + Tolerance

\* C21: in the scenario, whatever the float32 round-offs, every advantage
\* of compute_advantages and of compute_gae is within 1e-5 of the
\* reference 3.638665603349375, 2.81091504875, 1.9307975, 0.995.
C21_GaeScenario ==
    out.kind = "gae" =>
        \A t \in 0 .. args.num_steps - 1 :
            WithinTolerance(out.advantages[t][0], t)

\* a run of compute_gae whose round-offs moved adv[0] off the reference
C21_Witness ==
    /\ out.kind = "gae"
    /\ out.variant = "ppo_flax"
    /\ out.advantages[0][0] > Reference[1] + 1
    /\ out.advantages[3][0] < Reference[4]

(***************************************************************************)
(* Further properties of the training loops, stated over Spec.             *)
(***************************************************************************)
PlainVariants == A2CVariants \cup {"reinforce"}

\* the number of entries of a call sequence that name one of the calls
count(calls, names) == Cardinality({k \in 1 .. Len(calls) : calls[k] \in names})

\* rows is the whole window, every cell once, in row-major order
WholeWindow(rows, window) ==
    /\ DOMAIN rows = 0 .. args.num_steps * args.num_envs - 1
    /\ \A t \in 0 .. args.num_steps - 1 : \A e \in envs_of(args) :
           rows[t * args.num_envs + e] = window[t][e]

\* a step of a plain policy-gradient variant that changes the parameters
SinglePassStep ==
    (args.variant \in PlainVariants /\ params' # params) =>
        /\ params' = params + 1
        /\ count(ops', {"backward", "value_and_grad"}) = 1
        /\ count(ops', {"step", "apply_gradients"}) = 1
        /\ UNCHANGED << batch_indexes, epoch, start, shuffles, minibatches >>
        /\ args.variant \in A2CVariants =>
               /\ update' = update + 1
               /\ DOMAIN batch' = {"states", "actions", "td_target"}
               /\ WholeWindow(batch'.states, arrays.states)
               /\ WholeWindow(batch'.actions, arrays.actions)

\* an A2C script has stepped its optimizer once per finished cycle and is
\* never inside an epoch or minibatch loop
OneStepPerCycle ==
    args.variant \in A2CVariants =>
        /\ params = update
        /\ pc \in {"loop", "collect", "estimate", "done"}
        /\ epoch = 0
        /\ minibatches = << >>

\* C22: in the A2C scripts and in REINFORCE.update_policy an update is one
\* loss evaluation over the whole flattened window (A2C) and one optimizer
\* step: the parameters advance by one version per cycle, no epoch or
\* minibatch loop runs, and the batch carries no old log-probabilities for
\* an importance ratio.
C22_SinglePass == []OneStepPerCycle /\ [][SinglePassStep]_vars

\* two cycles of an A2C script are over
C22_Witness ==
    /\ args.variant \in A2CVariants
    /\ update = 2
    /\ params = 2
    /\ pc = "loop"

\* the configured cycles are over: num_updates cycles of num_steps ticks
Completed ==
    /\ pc = "done"
    /\ update = args.num_updates
    /\ clock = args.num_updates * args.num_steps

\* at the head of the main loop only whole cycles have run, never more
\* than the configured number
WholeCycles ==
    (args.variant \in PPOVariants \cup A2CVariants /\ pc \in {"loop", "done"}) =>
        /\ update <= args.num_updates
        /\ clock = update * args.num_steps

\* C23: every run of a training script ends, after exactly num_updates
\* cycles of exactly num_steps ticks each, with no extra and no partial
\* cycle.
C23_CompletesAllCycles ==
    /\ []WholeCycles
    /\ (args.variant \in PPOVariants \cup A2CVariants) => <>Completed

(***************************************************************************)
(* Properties of the standardization, stated over SpecStd.                 *)
(***************************************************************************)
\* every advantage of the window has the same value
Degenerate ==
    \A c1 \in cells_of(est.advantages), c2 \in cells_of(est.advantages) :
        est.advantages[c1[1]][c1[2]] = est.advantages[c2[1]][c2[2]]

\* the standardized entry z = << c, v, eps >> is exactly 0: c is 0 and the
\* divisor sqrt(v) + eps is a number, v being the variance 0
ExactlyZero(z) == z[1] = q(0) /\ z[2] = q(0)

\* C24: when every advantage of the window has the same value, every
\* standardized advantage is exactly 0 and its divisor is std + eps = eps,
\* not zero.
C24_DegenerateIsZero ==
    (out.kind = "standardized" /\ Degenerate) =>
        \A c \in cells_of(out.advantages) :
            ExactlyZero(out.advantages[c[1]][c[2]])

(***************************************************************************)
(* Further properties of the estimators, stated over SpecEst.              *)
(***************************************************************************)
\* C25: for the same rewards, done flags, values and bootstrap value, the
\* advantages of compute_advantages fed with flag = 1 - done, of the
\* recursion inline in rl_gym's main() and of compute_gae, both fed with
\* done, are the same.
C25_GaeImplementationsAgree ==
    out.kind \in PPOKinds =>
        /\ out.advantages =
               main_advantages(est.rewards, est.done, est.values,
                               est.bootstrap, args)
        /\ out.advantages =
               compute_gae(est.rewards, est.values, est.done, est.bootstrap,
                           args.gamma, args.gae)

\* compute_advantages has run on a window in which an episode ends before
\* the last step and another step continues
C25_Witness ==
    /\ out.kind = "ppo_pytorch"
    /\ args.num_steps = 3
    /\ est.done[0][0] = q(1)
    /\ est.done[1][0] = q(0)
    /\ est.done[2][0] = q(0)
    /\ out.advantages[0][0] # out.advantages[1][0]

(***************************************************************************)
(* Properties of the rows of the batch, stated over Spec.                  *)
(***************************************************************************)
\* the window cell row k of the batch was read from: the Flax script moves
\* the rows, the other two index a batch that stays in place
CellOf(k) == IF args.variant = "ppo_flax" THEN batch.cell[k] ELSE k

\* the rows of a batch, each with the cell it was read from
Rows(b) ==
    { << (IF "cell" \in DOMAIN b THEN b.cell[k] ELSE k), b.states[k],
         b.actions[k], b.log_probs[k], b.advantages[k], b.td_target[k] >> :
      k \in DOMAIN b.states }

\* every row holds the state, action and old log-probability of its cell,
\* and every entry of a minibatch names a row
RowsAligned ==
    InPPOUpdate =>
        /\ \A k \in DOMAIN batch.states :
              /\ CellOf(k) \in 0 .. args.batch_size - 1
              /\ batch.states[k] = flatten(Stored("states"), args)[CellOf(k)]
              /\ batch.actions[k] = flatten(Stored("actions"), args)[CellOf(k)]
              /\ batch.log_probs[k] =
                     flatten(Stored("log_probs"), args)[CellOf(k)]
        /\ \A m \in 1 .. Len(minibatches) : \A j \in 1 .. Len(minibatches[m]) :
              minibatches[m][j] \in 0 .. args.batch_size - 1
        /\ Cardinality(Rows(batch)) = args.batch_size

\* a step inside the update phase keeps the rows: the target and the
\* standardized advantage of a cell stay with that cell
RowsKept == (InPPOUpdate /\ InPPOUpdate') => Rows(batch') = Rows(batch)

\* C26: in every epoch of every PPO script each row of the batch, and so
\* each minibatch entry, holds the state, action, old log-probability,
\* standardized advantage and td_target of one and the same window cell,
\* also where the Flax script permutes the already permuted batch again;
\* the rows of the batch are the same in every epoch of a cycle.
C26_RowsStayAligned == []RowsAligned /\ [][RowsKept]_vars

\* the Flax script has permuted the batch twice and the rows have moved
C26_Witness ==
    /\ args.variant = "ppo_flax"
    /\ pc = "epoch"
    /\ epoch = 2
    /\ args.batch_size >= 3
    /\ batch.cell # arange(args.batch_size)
    /\ \E k1 \in DOMAIN batch.td_target, k2 \in DOMAIN batch.td_target :
          batch.td_target[k1] # batch.td_target[k2]

(***************************************************************************)
(* Properties of the learning rate, stated over Spec.                      *)
(***************************************************************************)
\* C27: in the two scripts that anneal, the learning rate in force during
\* any update cycle is strictly positive and never above the configured
\* learning_rate.
C27_RateWithinBase ==
    InAnnealedCycle =>
        /\ qlt(q(0), lr)
        /\ qle(lr, args.learning_rate)

(***************************************************************************)
(* Properties of the timestep budget, stated over Spec.                    *)
(***************************************************************************)
\* the environment transitions collected so far: every tick steps each of
\* the num_envs environments once
Transitions == clock * args.num_envs

\* C28: in every training script the transitions collected never exceed
\* total_timesteps, and a complete run has collected
\* num_updates * num_steps * num_envs of them.
C28_WithinBudget ==
    args.variant \in PPOVariants \cup A2CVariants =>
        /\ Transitions <= args.total_timesteps
        /\ pc = "done" =>
              Transitions = args.num_updates * args.num_steps * args.num_envs

(***************************************************************************)
(* Properties of the environment columns, stated over SpecEst.             *)
(***************************************************************************)
\* column e of a (num_steps, num_envs) array as a window of one environment
only_column(array, e) == [t \in DOMAIN array |-> [z \in {0} |-> array[t][e]]]

\* the bootstrap value of column e as the bootstrap of one environment
only_entry(last_value, e) == [z \in {0} |-> last_value[e]]

\* the configuration of the same run with one environment
OneEnvironment == [args EXCEPT !.num_envs = 1]

\* what the estimator of the script makes of column e when the window holds
\* no other column
Alone(e) ==
    LET rewards == only_column(est.rewards, e)
        done == only_column(est.done, e)
        values == only_column(est.values, e)
        bootstrap == only_entry(est.bootstrap, e)
    IN  CASE out.kind = "ppo_pytorch" ->
               compute_advantages(rewards,
                   [t \in DOMAIN done |-> flag_of(done[t])],
                   values, bootstrap, OneEnvironment)
          [] out.kind = "ppo_rlgym" ->
               main_advantages(rewards, done, values, bootstrap,
                               OneEnvironment)
          [] out.kind = "ppo_flax" ->
               compute_gae(rewards, values, done, bootstrap,
                           args.gamma, args.gae)
          [] out.kind = "a2c_pytorch" ->
               train_td_target(rewards, done, OneEnvironment)
          [] out.kind = "a2c_flax" ->
               compute_td_target(rewards, done, args.gamma)

\* C29: before standardization, column e of the advantages and of
\* td_target = advantages + values (PPO) and column e of the discounted
\* returns (A2C) are what the estimator computes from the rewards, done
\* flags, values and bootstrap value of column e alone, so the data of the
\* other columns has no part in them.
C29_ColumnsIndependent ==
    out.kind # "none" =>
        \A e \in 0 .. args.num_envs - 1 :
            \A t \in 0 .. args.num_steps - 1 :
                IF out.kind \in PPOKinds
                THEN /\ out.advantages[t][e] = Alone(e)[t][0]
                     /\ madd(out.advantages, est.values)[t][e] =
                            madd(Alone(e), only_column(est.values, e))[t][0]
                ELSE out.td_target[t][e] = Alone(e)[t][0]

\* an estimator has run on a window of two environments whose rewards and
\* done flags differ, and the two columns of its result differ
C29_Witness ==
    /\ out.kind \in {"ppo_pytorch", "a2c_flax"}
    /\ args.num_envs = 2
    /\ args.num_steps = 2
    /\ est.rewards[0][0] # est.rewards[0][1]
    /\ est.done[0][0] # est.done[0][1]
    /\ IF out.kind = "ppo_pytorch"
       THEN out.advantages[0][0] # out.advantages[0][1]
       ELSE out.td_target[0][0] # out.td_target[0][1]

(***************************************************************************)
(* Properties of the succession of windows, stated over Spec.              *)
(***************************************************************************)
\* the un-standardized advantages of the window when the bootstrap value is
\* the critic's estimate of the observation s
AdvantagesFrom(s) ==
    IF args.variant = "ppo_pytorch"
    THEN compute_advantages(WindowOf("rewards"), WindowOf("flags"),
             WindowOf("values"), vec_q(critic(params, s)), args)
    ELSE IF args.variant = "ppo_rlgym"
    THEN main_advantages(WindowOf("rewards"), WindowOf("flags"),
             WindowOf("values"), vec_q(critic(params, s)), args)
    ELSE compute_gae(WindowOf("rewards"), WindowOf("values"),
             WindowOf("flags"), vec_q(critic(params, s)), args.gamma,
             args.gae)

\* the batch of the cycle has been built and no optimizer step of the cycle
\* has been made
JustEstimated ==
    args.variant \in PPOVariants /\ pc = "epoch" /\ epoch = 0 /\ shuffles = 0

\* the targets of the cycle were bootstrapped from the observation the last
\* envs.step() of the cycle returned
BootstrapFromLastStep ==
    JustEstimated =>
        /\ clock = (update + 1) * args.num_steps
        /\ \A k \in DOMAIN batch.td_target :
              batch.td_target[k] =
                  qadd(flatten(AdvantagesFrom(observation(args, clock)),
                               args)[k],
                       flatten(WindowOf("values"), args)[k])

\* row 0 of the window is the observation the last envs.step() of the cycle
\* before returned, the one envs.reset() returned in the first cycle
RowZeroContinues ==
    (args.variant \in PPOVariants /\ pc \in {"collect", "estimate"} /\ i >= 1)
        => Stored("states")[0] = observation(args, update * args.num_steps)

\* the environments are never reset after the first envs.reset(): the
\* current observation is the one of the latest envs.step()
NeverResetAgain ==
    (args.variant \in PPOVariants /\ pc # "error") =>
        /\ state = observation(args, clock)
        /\ clock > 0 => state # observation(args, 0)

\* C30: in the PPO scripts the bootstrap value at the end of a cycle is the
\* critic's estimate of the state the last step of that cycle returned, the
\* same state is row 0 of the window of the next cycle, and the environments
\* are reset only once, before the first cycle.
C30_WindowContinuity ==
    /\ BootstrapFromLastStep
    /\ RowZeroContinues
    /\ NeverResetAgain

\* the second cycle of the PyTorch script has built its batch: row 0 of its
\* window is the state the first cycle bootstrapped from
C30_Witness ==
    /\ args.variant = "ppo_pytorch"
    /\ update = 1
    /\ JustEstimated
    /\ args.num_steps = 2
    /\ Stored("states")[0] = observation(args, args.num_steps)
    /\ state = observation(args, 2 * args.num_steps)

====
